---- MODULE Spec2Model ----
(***************************************************************************)
(* GoEconGo (src/main.go): trader agents (goroutines started by agentRun)  *)
(* and the market clearinghouse (the ticker goroutine of main).            *)
(*                                                                         *)
(* Numbers.  Every float64 amount of the program (prices, beliefs, funds)  *)
(* is an integer counting hundredths: 3.0 is 300, 0.5 is 50.  A float64    *)
(* division is the integer quotient of the hundredths (Div, Mid).          *)
(*                                                                         *)
(* Pointers.  asksTyped and bidsTyped hold []*asks and []*bids: a list is  *)
(* a sequence of addresses into askHeap / bidHeap, so that two list        *)
(* entries holding the same pointer are one record.                        *)
(***************************************************************************)
EXTENDS Integers, Sequences, FiniteSets, TLC

VARIABLES
    loopVarPerIteration, \* the build's meaning of "for _, asksIn := range": TRUE = one variable per iteration (go >= 1.22), FALSE = one per loop
    averagePrice,        \* commodity.averagePrice, per commodity
    pc,                  \* position of each agent goroutine in agentRun
    askSlice,            \* agentRun's askSlice, per agent
    bidSlice,            \* agentRun's bidSlice, per agent
    mpc,                 \* position of the clearinghouse goroutine in its tick
    tick,                \* number of ticks started so far
    askHeap,             \* the asks records the book's pointers point to
    bidHeap,             \* the bids records the book's pointers point to
    asksTyped,           \* asksTyped[com]: list of pointers, as the map's slice header sees it
    bidsTyped,           \* bidsTyped[com]
    todo,                \* commodities the range over asksTyped has still to visit
    loop,                \* the locals of the matching loop (asksCom, bidsCom, indexes, totals)
    role,                \* traderAgent.role, per agent
    funds,               \* traderAgent.funds, per agent
    inventory,           \* traderAgent.inventory, per agent: a map from the commodities it has a key for
    priceBelief,         \* traderAgent.priceBelief, per agent and commodity: [high, low]
    riskAversion,        \* traderAgent.riskAversion, per agent
    methods,             \* productionSet.methods, per role: the slice all agents of the role share
    prod,                \* the locals of performProduction, per agent
    collected,           \* history: the two heaps as they were when collection ended
    passStart,           \* history: heaps and averagePrice when the current pass began
    trades,              \* history: the trades of the current pass
    prodStart,           \* history: per agent, its state when its last performProduction began
    lastUpdate,          \* history: per agent, the last offer agentUpdate processed
    life,                \* history: per agent, its cycles and channel operations since it was started
    numLive,             \* numFarmers, numMiners, numRefiners, numWoodcutters, numBlacksmiths: the live count of each role
    valueCall            \* history: the last call of getAverageProductionValue and its outcome

vars == <<loopVarPerIteration, valueCall, averagePrice, pc, askSlice, bidSlice, mpc, tick,
          askHeap, bidHeap, asksTyped, bidsTyped, todo, loop,
          role, funds, inventory, priceBelief, riskAversion, methods, prod,
          collected, passStart, trades, prodStart, lastUpdate, life, numLive>>

agentVars == <<pc, askSlice, bidSlice>>
bookVars == <<askHeap, bidHeap, asksTyped, bidsTyped>>
histVars == <<collected, passStart, trades>>
traderVars == <<role, funds, inventory, priceBelief, riskAversion>>
prodVars == <<methods, prod, prodStart>>

-----------------------------------------------------------------------------
(* Bounds of the model *)

NumAgents == 2
MaxTicks == 2

Agents == 1..NumAgents

-----------------------------------------------------------------------------
(* Numbers *)

Unit == 100

Abs(x) == IF x < 0 THEN -x ELSE x

Min(a, b) == IF a <= b THEN a ELSE b

\* float64 division a / b, b # 0, on hundredths (rounded towards zero)
Div(a, b) ==
    IF b > 0
    THEN IF a >= 0 THEN a \div b ELSE -((-a) \div b)
    ELSE IF a >= 0 THEN -(a \div (-b)) ELSE (-a) \div (-b)

Mid(a, b) == Div(a + b, 2)

-----------------------------------------------------------------------------
(* The world: the commodity registry *)

Commodities == {"Food", "Wood", "Tools", "Ore", "Metal"}

\* the commodities, listed
ComOrder == <<"Food", "Wood", "Tools", "Ore", "Metal">>

InitialAveragePrice == 300

-----------------------------------------------------------------------------
(* Sequences *)

RECURSIVE SumSeq(_)
SumSeq(s) == IF s = <<>> THEN 0 ELSE Head(s) + SumSeq(Tail(s))

Perms(n) == {f \in [1..n -> 1..n] : \A i, j \in 1..n : i # j => f[i] # f[j]}

-----------------------------------------------------------------------------
(* Collection: main.go 844-877 *)

EmptyBook == [c \in Commodities |-> <<>>]

\* a tick that keeps the book of the tick before
KeepBook(heap, typed) == [heap |-> heap, typed |-> typed]

\* "for com, _ := range asksTyped { asksTyped[com] = nil }": the book a
\* collection starts from
ResetBook(heap, typed) == [heap |-> <<>>, typed |-> EmptyBook]

RECURSIVE Bucket(_, _, _, _)
Bucket(typed, batch, ptrs, k) ==
    IF k > Len(batch) THEN typed
    ELSE Bucket([typed EXCEPT ![batch[k].item] = Append(@, ptrs[k])], batch, ptrs, k + 1)

\* One received batch: "for _, asksIn := range tempAsksStorage { asksIn.id =
\* chindex; asksTyped[item] = append(asksTyped[item], &asksIn) }".  With one
\* variable per iteration every element gets its own record; with one
\* variable per loop every appended pointer is the address of the same
\* record, which ends holding the last element of the batch.
CollectBatch(st, batch, chindex, perIteration) ==
    LET n == Len(batch)
        base == Len(st.heap)
        tagged == [k \in 1..n |-> [batch[k] EXCEPT !.id = chindex]]
    IN  IF n = 0 THEN st
        ELSE IF perIteration
        THEN [heap |-> st.heap \o tagged,
              typed |-> Bucket(st.typed, batch, [k \in 1..n |-> base + k], 1)]
        ELSE [heap |-> Append(st.heap, tagged[n]),
              typed |-> Bucket(st.typed, batch, [k \in 1..n |-> base + 1], 1)]

RECURSIVE CollectChannels(_, _, _, _, _)
CollectChannels(st, chindex, slices, ready, perIteration) ==
    IF chindex > NumAgents THEN st
    ELSE CollectChannels(
            IF chindex \in ready
            THEN CollectBatch(st, slices[chindex], chindex, perIteration)
            ELSE st,
            chindex + 1, slices, ready, perIteration)

\* an ask order that puts the dearest first
AsksHighToLow(heap, p, q) == heap[p].sellFor > heap[q].sellFor

\* AsksLowToHigh.Less, BidsHighToLow.Less: main.go 1079-1090
AsksLess(heap, p, q) == heap[p].sellFor < heap[q].sellFor
BidsLess(heap, p, q) == heap[p].buyFor > heap[q].buyFor

\* the comparison of the sort of an ask list (asks) or of a bid list
OrderLess(heap, asks, p, q) ==
    IF asks THEN AsksLess(heap, p, q) ELSE BidsLess(heap, p, q)

\* the orders sort.Sort may leave a list in: every permutation no pair of
\* which is out of order (sort.Sort is not stable, ties may end either way)
SortedOrders(list, heap, asks) ==
    {s \in {[k \in 1..Len(list) |-> list[f[k]]] : f \in Perms(Len(list))} :
        \A k \in 1..(Len(s) - 1) : ~OrderLess(heap, asks, s[k + 1], s[k])}

\* the books the sort of every list of a book may leave
SortedBooks(typed, heap, asks) ==
    LET RECURSIVE Build(_, _)
        Build(k, books) ==
            IF k > Len(ComOrder) THEN books
            ELSE Build(k + 1,
                       UNION {{[b EXCEPT ![ComOrder[k]] = s] :
                                  s \in SortedOrders(typed[ComOrder[k]], heap, asks)} : b \in books})
    IN  Build(1, {typed})

-----------------------------------------------------------------------------
(* Slices *)

RECURSIVE CapFrom(_, _)
CapFrom(c, n) == IF c >= n THEN c ELSE CapFrom(2 * c, n)

\* capacity of a slice grown from nil by n appends of one element
CapOf(n) == IF n = 0 THEN 0 ELSE CapFrom(1, n)

\* "pre := list[:i]; post := list[i:]; list = append(pre, new); list =
\* append(list, post...)" for a list of capacity cap whose backing array is
\* (shared) or is not the one the map's slice header (view) points to.  pre
\* and post share the backing array: when pre has room, append(pre, new)
\* writes new over post[0] before post is copied.
SplitAppend(list, i, new, cap, shared, view) ==
    LET n == Len(list)
        n0 == Len(view)
        inPlace1 == i < cap
        arr1 == IF ~inPlace1 THEN list
                ELSE IF i + 1 <= n THEN [list EXCEPT ![i + 1] = new]
                ELSE Append(list, new)
        post == IF inPlace1 THEN SubSeq(arr1, i + 1, n) ELSE <<>>
        result == SubSeq(list, 1, i) \o <<new>> \o post
        cap1 == IF inPlace1 THEN cap ELSE 2 * cap
        inPlace2 == Len(result) <= cap1
        view1 == IF shared /\ inPlace1 /\ i + 1 <= n0
                 THEN [view EXCEPT ![i + 1] = new] ELSE view
    IN  [list |-> result,
         cap |-> IF inPlace2 THEN cap1 ELSE 2 * cap1,
         shared |-> shared /\ inPlace1 /\ inPlace2,
         view |-> IF shared /\ inPlace1 /\ inPlace2
                  THEN SubSeq(result, 1, n0) ELSE view1]

-----------------------------------------------------------------------------
(* The matching loop: main.go 892-968 *)

NoPass == [asks |-> <<>>, bids |-> <<>>, asksCom |-> <<>>, bidsCom |-> <<>>, averagePrice |-> 0]

NoLoop ==
    [com |-> "none", asksCom |-> <<>>, bidsCom |-> <<>>,
     asksIndex |-> 0, bidsIndex |-> 0,
     totalTransactions |-> 0, runningTotal |-> 0,
     asksCap |-> 0, asksShared |-> FALSE, bidsCap |-> 0, bidsShared |-> FALSE,
     done |-> FALSE]

\* "newAsks := asksCom[asksIndex]" and "newBids := bidsCom[bidsIndex]": the
\* lists hold pointers, so the new entry is the pointer of the entry split
SplitPointer(heap, p) == p

\* "(asksCom[asksIndex].offeredAsk.sellFor + bidsCom[bidsIndex].offeredBid.buyFor) / 2.0"
ClearingPriceOfAsk(sellFor, buyFor) == sellFor
ClearingPrice(sellFor, buyFor) == Mid(sellFor, buyFor)

\* "if asksCom[asksIndex].offeredAsk.sellFor > bidsCom[bidsIndex].offeredBid.buyFor { break }"
NoTrade(sellFor, buyFor) == sellFor > buyFor

\* One iteration of "for { ... }", main.go 903-960, on
\* st = [ah, bh, av, bv, lp]: the heaps, the two slice headers' views and the locals.
\* The result adds brk (the loop ended) and trade (<<>> or the one trade made).
MatchIteration(st) ==
    LET lp == st.lp
        ah == st.ah
        bh == st.bh
        ia == lp.asksIndex + 1
        ib == lp.bidsIndex + 1
        a == lp.asksCom[ia]
        b == lp.bidsCom[ib]
        asksQuantityRemaining == ah[a].numberOffered - ah[a].numberAccepted
        bidsQuantityRemaining == bh[b].numberOffered - bh[b].numberAccepted
    IN  IF NoTrade(ah[a].sellFor, bh[b].buyFor)
        THEN [st EXCEPT !.brk = TRUE, !.trade = <<>>]
        ELSE
        IF asksQuantityRemaining >= bidsQuantityRemaining
        THEN
            LET ah1 == [ah EXCEPT ![a].numberAccepted = @ + bidsQuantityRemaining]
                bh1 == [bh EXCEPT ![b].numberAccepted = bh[b].numberOffered]
                total1 == lp.totalTransactions + bh1[b].numberAccepted
                split == asksQuantityRemaining # bidsQuantityRemaining
                newAsks == SplitPointer(ah1, a)
                ah2 == IF split THEN [ah1 EXCEPT ![newAsks].numberAccepted = 0] ELSE ah1
                ah3 == IF split
                       THEN [ah2 EXCEPT ![newAsks].numberOffered =
                                ah2[a].numberOffered - ah2[a].numberAccepted]
                       ELSE ah2
                sp == IF split
                      THEN SplitAppend(lp.asksCom, ia, newAsks, lp.asksCap, lp.asksShared, st.av)
                      ELSE [list |-> lp.asksCom, cap |-> lp.asksCap,
                            shared |-> lp.asksShared, view |-> st.av]
                ah4 == [ah3 EXCEPT ![a].numberOffered = ah3[a].numberAccepted]
                price == ClearingPrice(ah4[a].sellFor, bh1[b].buyFor)
                ah5 == [ah4 EXCEPT ![a].sellFor = price]
                bh2 == [bh1 EXCEPT ![b].buyFor = ah5[a].sellFor]
                running1 == lp.runningTotal + bh2[b].buyFor * bh2[b].numberAccepted
                lp1 == [lp EXCEPT !.asksCom = sp.list, !.asksCap = sp.cap,
                                  !.asksShared = sp.shared,
                                  !.totalTransactions = total1,
                                  !.runningTotal = running1,
                                  !.asksIndex = @ + 1, !.bidsIndex = @ + 1]
            IN  [ah |-> ah5, bh |-> bh2, av |-> sp.view, bv |-> st.bv, lp |-> lp1,
                 brk |-> (lp1.bidsIndex >= Len(lp1.bidsCom) \/ lp1.asksIndex >= Len(lp1.asksCom)),
                 trade |-> <<[ask |-> a, bid |-> b,
                              sellFor |-> ah[a].sellFor, buyFor |-> bh[b].buyFor,
                              asksQuantityRemaining |-> asksQuantityRemaining,
                              bidsQuantityRemaining |-> bidsQuantityRemaining]>>]
        ELSE
            LET bh1 == [bh EXCEPT ![b].numberAccepted = @ + asksQuantityRemaining]
                ah1 == [ah EXCEPT ![a].numberAccepted = ah[a].numberOffered]
                total1 == lp.totalTransactions + ah1[a].numberAccepted
                newBids == SplitPointer(bh1, b)
                bh2 == [bh1 EXCEPT ![newBids].numberAccepted = 0]
                bh3 == [bh2 EXCEPT ![newBids].numberOffered =
                            bh2[b].numberOffered - bh2[b].numberAccepted]
                sp == SplitAppend(lp.bidsCom, ib, newBids, lp.bidsCap, lp.bidsShared, st.bv)
                bh4 == [bh3 EXCEPT ![b].numberOffered = bh3[b].numberAccepted]
                price == ClearingPrice(ah1[a].sellFor, bh4[b].buyFor)
                ah2 == [ah1 EXCEPT ![a].sellFor = price]
                bh5 == [bh4 EXCEPT ![b].buyFor = ah2[a].sellFor]
                running1 == lp.runningTotal + ah2[a].sellFor * ah2[a].numberAccepted
                lp1 == [lp EXCEPT !.bidsCom = sp.list, !.bidsCap = sp.cap,
                                  !.bidsShared = sp.shared,
                                  !.totalTransactions = total1,
                                  !.runningTotal = running1,
                                  !.asksIndex = @ + 1, !.bidsIndex = @ + 1]
            IN  [ah |-> ah2, bh |-> bh5, av |-> st.av, bv |-> sp.view, lp |-> lp1,
                 brk |-> (lp1.bidsIndex >= Len(lp1.bidsCom) \/ lp1.asksIndex >= Len(lp1.asksCom)),
                 trade |-> <<[ask |-> a, bid |-> b,
                              sellFor |-> ah[a].sellFor, buyFor |-> bh[b].buyFor,
                              asksQuantityRemaining |-> asksQuantityRemaining,
                              bidsQuantityRemaining |-> bidsQuantityRemaining]>>]

\* "if totalTransactions != 0 { com.averagePrice = runningTotal / float64(totalTransactions) }"
NewAveragePrice(old, runningTotal, totalTransactions) ==
    IF totalTransactions # 0 THEN Div(runningTotal, totalTransactions) ELSE old

-----------------------------------------------------------------------------
(* The clearinghouse goroutine: one tick, main.go 839-1071 *)

\* reset of the ask book and non-blocking receive on every ask channel
CollectAsks ==
    /\ mpc = "idle"
    /\ tick < MaxTicks
    /\ LET ready == {i \in Agents : pc[i] = "sendAsks"}
           st == CollectChannels(ResetBook(askHeap, asksTyped), 1,
                                 askSlice, ready, loopVarPerIteration)
       IN  /\ askHeap' = st.heap
           /\ asksTyped' = st.typed
           /\ pc' = [i \in Agents |-> IF i \in ready THEN "askSent" ELSE pc[i]]
           /\ life' = [i \in Agents |->
                         IF i \in ready
                         THEN [life[i] EXCEPT !.asksIn = @ + 1, !.askTick = tick + 1]
                         ELSE life[i]]
    /\ tick' = tick + 1
    /\ mpc' = "collectBids"
    /\ loop' = NoLoop
    /\ trades' = <<>>
    /\ UNCHANGED <<numLive, traderVars, prodVars, lastUpdate, loopVarPerIteration, valueCall, averagePrice, askSlice, bidSlice,
                   bidHeap, bidsTyped, todo, collected, passStart>>

\* reset of the bid book, non-blocking receive on every bid channel, and the
\* two sorts
CollectBids ==
    /\ mpc = "collectBids"
    /\ LET ready == {i \in Agents : pc[i] = "sendBids"}
           st == CollectChannels(ResetBook(bidHeap, bidsTyped), 1,
                                 bidSlice, ready, loopVarPerIteration)
       IN  /\ bidHeap' = st.heap
           /\ asksTyped' \in SortedBooks(asksTyped, askHeap, TRUE)
           /\ bidsTyped' \in SortedBooks(st.typed, st.heap, FALSE)
           /\ pc' = [i \in Agents |-> IF i \in ready THEN "bidSent" ELSE pc[i]]
           /\ collected' = [asks |-> askHeap, bids |-> st.heap]
           /\ life' = [i \in Agents |->
                         IF i \in ready
                         THEN [life[i] EXCEPT !.bidsIn = @ + 1, !.bidTick = tick]
                         ELSE life[i]]
    /\ todo' = Commodities
    /\ mpc' = "match"
    /\ UNCHANGED <<numLive, traderVars, prodVars, lastUpdate, loopVarPerIteration, valueCall, averagePrice, askSlice, bidSlice, tick,
                   askHeap, loop, passStart, trades>>

\* the locals of a pass over commodity c as the range statement sets them
PassLocals(c, asksCom, bidsCom) ==
    [NoLoop EXCEPT !.com = c, !.asksCom = asksCom, !.bidsCom = bidsCom,
                   !.asksCap = CapOf(Len(asksCom)), !.bidsCap = CapOf(Len(bidsCom)),
                   !.asksShared = TRUE, !.bidsShared = TRUE]

\* "for com, asksCom := range asksTyped": the next commodity, in map order
BeginCom(c) ==
    /\ mpc = "match"
    /\ c \in todo
    /\ loop' = PassLocals(c, asksTyped[c], bidsTyped[c])
    /\ passStart' = [asks |-> askHeap, bids |-> bidHeap,
                     asksCom |-> asksTyped[c], bidsCom |-> bidsTyped[c],
                     averagePrice |-> averagePrice[c]]
    /\ trades' = <<>>
    /\ mpc' = IF Len(asksTyped[c]) > 0 /\ Len(bidsTyped[c]) > 0 THEN "loop" ELSE "price"
    /\ UNCHANGED <<traderVars, prodVars, lastUpdate, life, numLive, loopVarPerIteration, valueCall, averagePrice, agentVars, tick, bookVars,
                   todo, collected>>

MatchIter ==
    /\ mpc = "loop"
    /\ LET c == loop.com
           st == MatchIteration([ah |-> askHeap, bh |-> bidHeap,
                                 av |-> asksTyped[c], bv |-> bidsTyped[c],
                                 lp |-> loop, brk |-> FALSE, trade |-> <<>>])
       IN  /\ askHeap' = st.ah
           /\ bidHeap' = st.bh
           /\ asksTyped' = [asksTyped EXCEPT ![c] = st.av]
           /\ bidsTyped' = [bidsTyped EXCEPT ![c] = st.bv]
           /\ loop' = st.lp
           /\ trades' = trades \o st.trade
           /\ mpc' = IF st.brk THEN "price" ELSE "loop"
    /\ UNCHANGED <<traderVars, prodVars, lastUpdate, life, numLive, loopVarPerIteration, valueCall, averagePrice, agentVars, tick, todo,
                   collected, passStart>>

PriceUpdate ==
    /\ mpc = "price"
    /\ averagePrice' = [averagePrice EXCEPT ![loop.com] =
            NewAveragePrice(@, loop.runningTotal, loop.totalTransactions)]
    /\ loop' = [loop EXCEPT !.done = TRUE]
    /\ todo' = todo \ {loop.com}
    /\ mpc' = IF todo' = {} THEN "routeAsks" ELSE "match"
    /\ UNCHANGED <<traderVars, prodVars, lastUpdate, life, numLive, loopVarPerIteration, valueCall, agentVars, tick, bookVars, collected,
                   passStart, trades>>

-----------------------------------------------------------------------------
(* The world: roles and production rules, main.go 691-767 *)

Roles == {"Farmer", "Miner", "Refiner", "Woodcutter", "Blacksmith"}

CSet(c, n) == [item |-> c, quantity |-> n]

\* consumption is a probability, counted in hundredths (0.1 is 10)
Recipe(inputs, catalysts, outputs, consumption) ==
    [inputs |-> inputs, catalysts |-> catalysts, outputs |-> outputs,
     consumption |-> consumption]

farmerProd == Recipe(<<CSet("Wood", 1)>>, <<>>, <<CSet("Food", 2)>>, <<>>)
farmerToolsProd ==
    Recipe(<<CSet("Wood", 1)>>, <<CSet("Tools", 1)>>, <<CSet("Food", 4)>>, <<10>>)
minerProd == Recipe(<<CSet("Food", 1)>>, <<>>, <<CSet("Ore", 2)>>, <<>>)
minerToolsProd ==
    Recipe(<<CSet("Food", 1)>>, <<CSet("Tools", 1)>>, <<CSet("Ore", 4)>>, <<10>>)
refinerProd ==
    Recipe(<<CSet("Food", 1), CSet("Ore", 2)>>, <<>>, <<CSet("Metal", 2)>>, <<>>)
refinerToolsProd ==
    Recipe(<<CSet("Food", 1), CSet("Ore", 4)>>, <<CSet("Tools", 1)>>,
           <<CSet("Metal", 4)>>, <<10>>)
woodcutterProd == Recipe(<<CSet("Food", 1)>>, <<>>, <<CSet("Wood", 1)>>, <<>>)
woodcutterToolsProd ==
    Recipe(<<CSet("Food", 1)>>, <<CSet("Tools", 1)>>, <<CSet("Wood", 2)>>, <<10>>)
blacksmithProd ==
    Recipe(<<CSet("Food", 1), CSet("Metal", 2)>>, <<>>, <<CSet("Tools", 2)>>, <<>>)
blacksmithDoubleProd ==
    Recipe(<<CSet("Food", 1), CSet("Metal", 4)>>, <<>>, <<CSet("Tools", 4)>>, <<>>)

\* the productionMethod a pointer of a methods slice points to
Method(m) ==
    CASE m = "farmerProd" -> farmerProd
      [] m = "farmerToolsProd" -> farmerToolsProd
      [] m = "minerProd" -> minerProd
      [] m = "minerToolsProd" -> minerToolsProd
      [] m = "refinerProd" -> refinerProd
      [] m = "refinerToolsProd" -> refinerToolsProd
      [] m = "woodcutterProd" -> woodcutterProd
      [] m = "woodcutterToolsProd" -> woodcutterToolsProd
      [] m = "blacksmithProd" -> blacksmithProd
      [] m = "blacksmithDoubleProd" -> blacksmithDoubleProd

\* productionSet.methods as world setup leaves it
InitialMethods ==
    [r \in Roles |->
        CASE r = "Farmer" -> <<"farmerProd", "farmerToolsProd">>
          [] r = "Miner" -> <<"minerProd", "minerToolsProd">>
          [] r = "Refiner" -> <<"refinerProd", "refinerToolsProd">>
          [] r = "Woodcutter" -> <<"woodcutterProd", "woodcutterToolsProd">>
          [] r = "Blacksmith" -> <<"blacksmithProd", "blacksmithDoubleProd">>]

Penalty == 200

-----------------------------------------------------------------------------
(* Beliefs: randomPriceBelief, main.go 608-617, and the belief part of      *)
(* agentUpdate, main.go 468-602                                             *)

BigPercent == 20
LittlePercent == 1
BeliefFloor == 50

\* x * percent for percent = 0.2 or 0.01
Percent(x, percent) == Div(x * percent, 100)

\* "pr.high = averagePrice + rand*averagePrice; pr.low = averagePrice -
\* rand*averagePrice", the two rand.Float64() of [0, 1) in hundredths
RandomBelief(avg, randHigh, randLow) ==
    [high |-> avg + Percent(avg, randHigh), low |-> avg - Percent(avg, randLow)]

\* "for agentLow >= agentHigh { agentLow = agentLow - math.Abs(agentLow-itemAvg)*percent }":
\* the loop returns the low it ends with, or never returns.  A low above
\* itemAvg falls towards itemAvg, each step percent of what is left, and never
\* passes it; a low at itemAvg does not move (the step is 0): with agentHigh
\* <= itemAvg <= agentLow the loop never ends.  In every other case it ends
\* with the first low under agentHigh; where the steps are under a hundredth
\* that is the hundredth under agentHigh.
RECURSIVE Invert(_, _, _, _)
Invert(agentLow, agentHigh, itemAvg, percent) ==
    IF agentLow < agentHigh THEN [low |-> agentLow, returns |-> TRUE]
    ELSE IF agentHigh <= itemAvg /\ itemAvg <= agentLow
         THEN [low |-> agentLow, returns |-> FALSE]
         ELSE IF Percent(Abs(agentLow - itemAvg), percent) = 0
              THEN [low |-> agentHigh - 1, returns |-> TRUE]
              ELSE Invert(agentLow - Percent(Abs(agentLow - itemAvg), percent),
                          agentHigh, itemAvg, percent)

\* "if agentLow < 0 { agentLow = 0.5 }"
Floor(agentLow) == IF agentLow < 0 THEN BeliefFloor ELSE agentLow

\* both bounds moved up (sign 1) or down (sign -1) by percent of their
\* distance to itemAvg, then the INVERT loop, then the floor
Adjust(pr, itemAvg, sign, percent) ==
    LET agentHigh == pr.high + sign * Percent(Abs(pr.high - itemAvg), percent)
        agentLow == pr.low + sign * Percent(Abs(pr.low - itemAvg), percent)
        inv == Invert(agentLow, agentHigh, itemAvg, percent)
    IN  [high |-> agentHigh, low |-> Floor(inv.low), returns |-> inv.returns]

\* an ask update that takes the big step whatever the agent's average
AskBeliefBigOnly(pr, itemAvg, numberAccepted) ==
    IF numberAccepted > 0
    THEN Adjust(pr, itemAvg, 1, BigPercent)
    ELSE Adjust(pr, itemAvg, -1, BigPercent)

\* a bid update that moves the bounds the way an ask update does
BidBeliefUpOnAccept(pr, itemAvg, numberAccepted) ==
    IF numberAccepted > 0
    THEN Adjust(pr, itemAvg, 1, BigPercent)
    ELSE Adjust(pr, itemAvg, -1, BigPercent)

\* the belief of the item of one returned ask: main.go 474-535
AskBelief(pr, itemAvg, numberAccepted) ==
    LET agentAvg == Div(pr.high + pr.low, 2)
    IN  IF numberAccepted > 0
        THEN IF agentAvg <= itemAvg
             THEN Adjust(pr, itemAvg, 1, BigPercent)
             ELSE Adjust(pr, itemAvg, 1, LittlePercent)
        ELSE IF agentAvg >= itemAvg
             THEN Adjust(pr, itemAvg, -1, BigPercent)
             ELSE Adjust(pr, itemAvg, -1, LittlePercent)

\* the belief of the item of one returned bid: main.go 541-600
BidBelief(pr, itemAvg, numberAccepted) ==
    LET agentAvg == Div(pr.high + pr.low, 2)
    IN  IF numberAccepted > 0
        THEN IF agentAvg >= itemAvg
             THEN Adjust(pr, itemAvg, -1, BigPercent)
             ELSE Adjust(pr, itemAvg, -1, LittlePercent)
        ELSE IF agentAvg <= itemAvg
             THEN Adjust(pr, itemAvg, 1, BigPercent)
             ELSE Adjust(pr, itemAvg, 1, LittlePercent)

NoUpdate == [kind |-> "none", item |-> "none", numberAccepted |-> 0, itemAvg |-> 0,
             high |-> 0, low |-> 0, count |-> 0]

-----------------------------------------------------------------------------
(* performProduction: main.go 214-239, 288-341 *)

\* a Go map read: the zero value for a missing key
InvGet(inv, c) == IF c \in DOMAIN inv THEN inv[c] ELSE 0

\* a Go map write: the key is created when missing
InvSet(inv, c, n) == [x \in DOMAIN inv \cup {c} |-> IF x = c THEN n ELSE inv[x]]

RECURSIVE InvAddAll(_, _, _)
InvAddAll(inv, sets, sign) ==
    IF sets = <<>> THEN inv
    ELSE InvAddAll(InvSet(inv, Head(sets).item,
                          InvGet(inv, Head(sets).item) + sign * Head(sets).quantity),
                   Tail(sets), sign)

\* getMarketValue, on the prices read
getMarketValue(method, price) ==
    SumSeq([k \in 1..Len(method.outputs) |->
                method.outputs[k].quantity * price[method.outputs[k].item]])
    - SumSeq([k \in 1..Len(method.inputs) |->
                method.inputs[k].quantity * price[method.inputs[k].item]])
    - SumSeq([k \in 1..Len(method.catalysts) |->
                Div(method.catalysts[k].quantity * method.consumption[k]
                        * price[method.catalysts[k].item], 100)])

\* no call of getAverageProductionValue yet
NoCall == [agent |-> 0, productionNumber |-> 0, outcome |-> "none", productionValue |-> 0]

\* getAverageProductionValue(agent, productionNumber): "return -1" at and past
\* the end of agent.job.methods; "agent.job.methods[productionNumber]" panics
\* (index out of range) under 0; the value of the method under the middles of
\* the agent's beliefs otherwise.  productionNumber counts from 0.
getAverageProductionValue(agentMethods, belief, productionNumber) ==
    IF productionNumber >= Len(agentMethods)
    THEN [outcome |-> "return", productionValue |-> -Unit]
    ELSE IF productionNumber < 0
         THEN [outcome |-> "panic", productionValue |-> 0]
         ELSE LET method == Method(agentMethods[productionNumber + 1])
                  middle(c) == Mid(belief[c].high, belief[c].low)
              IN  [outcome |-> "return",
                   productionValue |->
                     SumSeq([k \in 1..Len(method.outputs) |->
                                method.outputs[k].quantity * middle(method.outputs[k].item)])
                     - SumSeq([k \in 1..Len(method.inputs) |->
                                method.inputs[k].quantity * middle(method.inputs[k].item)])
                     - SumSeq([k \in 1..Len(method.catalysts) |->
                                Div(method.catalysts[k].quantity * method.consumption[k]
                                        * middle(method.catalysts[k].item), 100)])]

\* ByMarketValue.Less
MarketValueLess(x, y, price) ==
    getMarketValue(Method(x), price) < getMarketValue(Method(y), price)

\* "accepted = accepted && input.quantity <= agent.inventory[input.item]" over
\* the inputs and the catalysts of a method
Executable(method, inv) ==
    /\ \A k \in 1..Len(method.inputs) :
            method.inputs[k].quantity <= InvGet(inv, method.inputs[k].item)
    /\ \A k \in 1..Len(method.catalysts) :
            method.catalysts[k].quantity <= InvGet(inv, method.catalysts[k].item)

-----------------------------------------------------------------------------
(* States of rest, from which the specifications below start *)

NoProd == [step |-> "none", less |-> FALSE, loaded |-> <<>>, methodIndex |-> 0,
           executedIndex |-> -1, catalysts |-> <<>>, catalystIndex |-> 0, unit |-> 0]

NoProdStart == [funds |-> 0, inventory |-> <<>>, sorted |-> <<>>, checked |-> "none",
                ranking |-> <<>>, consumed |-> <<>>]

\* "numFarmers := 500 ... numBlacksmiths := 500", for the agents of the model:
\* every role is counted as often as the traders started hold it
CohortSizes(roles) == [r \in Roles |-> Cardinality({i \in Agents : roles[i] = r})]

\* "totalTraders := numFarmers + numMiners + numRefiners + numWoodcutters +
\* numBlacksmiths", for the agents of the model
totalTraders == NumAgents

\* "make([]chan traderAgent, totalTraders)": a slice of totalTraders nil
\* channels (0: no channel)
MakeChannels(n) == [k \in 1..n |-> 0]

\* "deadChannels = append(deadChannels, tempDeadChannel)" for every agent
\* started: the channel of agent i is appended behind what make returned.
\* askChannels and bidChannels are built the same way.  A replacement is
\* assigned at the index of the agent it replaces, so the slices stay as
\* startup leaves them.
AppendChannels(channels, started) == channels \o [k \in 1..started |-> k]

deadChannels == AppendChannels(MakeChannels(totalTraders), NumAgents)

\* cycles: returns of agentUpdate; produced: calls of performProduction;
\* asksIn, bidsIn: batches of the agent the clearinghouse has received;
\* asksOut, bidsOut: result batches the agent has received; askTick, bidTick,
\* askResTick, bidResTick: the tick in which the last of each happened
NoLife == [cycles |-> 0, produced |-> 0, startFunds |-> 0, idleOnly |-> TRUE,
           asksIn |-> 0, bidsIn |-> 0, asksOut |-> 0, bidsOut |-> 0,
           askTick |-> 0, bidTick |-> 0, askResTick |-> 0, bidResTick |-> 0]

\* the clearinghouse between two ticks, its book empty
MarketAtRest ==
    /\ mpc = "idle"
    /\ tick = 0
    /\ askHeap = <<>>
    /\ bidHeap = <<>>
    /\ asksTyped = EmptyBook
    /\ bidsTyped = EmptyBook
    /\ todo = {}
    /\ loop = NoLoop
    /\ collected = [asks |-> <<>>, bids |-> <<>>]
    /\ passStart = NoPass
    /\ trades = <<>>

\* farmers of plain holdings and beliefs, not producing
TradersAtRest ==
    /\ role = [i \in Agents |-> "Farmer"]
    /\ funds = [i \in Agents |-> 50 * Unit]
    /\ inventory = [i \in Agents |-> [c \in {"Tools", "Wood"} |-> 0]]
    /\ priceBelief = [i \in Agents |-> [c \in Commodities |->
                        RandomBelief(InitialAveragePrice, 50, 50)]]
    /\ riskAversion = [i \in Agents |-> 1]
    /\ methods = InitialMethods
    /\ prod = [i \in Agents |-> NoProd]
    /\ prodStart = [i \in Agents |-> NoProdStart]
    /\ lastUpdate = [i \in Agents |-> NoUpdate]
    /\ life = [i \in Agents |-> NoLife]
    /\ numLive = CohortSizes(role)

-----------------------------------------------------------------------------
(* The belief update on arbitrary returned offers and market prices *)

MaxUpdates == 3

\* rand.Float64() of randomPriceBelief, in hundredths
RandGrid == {0, 25, 50, 75, 99}

\* commodity.averagePrice when the agent was built: 3 at world setup, the
\* price of the day for an agent built as a replacement
ConstructionPrices == {30, InitialAveragePrice}

\* commodity.averagePrice as agentUpdate may read it
PriceGrid == {20, 100, 300, 500}

InitBelief ==
    /\ loopVarPerIteration = TRUE
    /\ valueCall = NoCall
    /\ averagePrice = [c \in Commodities |-> InitialAveragePrice]
    /\ pc = [i \in Agents |-> "update"]
    /\ askSlice = [i \in Agents |-> <<>>]
    /\ bidSlice = [i \in Agents |-> <<>>]
    /\ MarketAtRest
    /\ role = [i \in Agents |-> "Farmer"]
    /\ funds = [i \in Agents |-> 50 * Unit]
    /\ inventory = [i \in Agents |-> [c \in {"Tools", "Wood"} |-> 0]]
    /\ \E avg \in ConstructionPrices, randHigh \in RandGrid, randLow \in RandGrid :
          priceBelief = [i \in Agents |-> [c \in Commodities |->
              IF i = 1 /\ c = "Food"
              THEN RandomBelief(avg, randHigh, randLow)
              ELSE RandomBelief(InitialAveragePrice, 50, 50)]]
    /\ riskAversion = [i \in Agents |-> 1]
    /\ methods = InitialMethods
    /\ prod = [i \in Agents |-> NoProd]
    /\ prodStart = [i \in Agents |-> NoProdStart]
    /\ lastUpdate = [i \in Agents |-> NoUpdate]
    /\ life = [i \in Agents |-> NoLife]
    /\ numLive = CohortSizes(role)

BeliefFrame ==
    UNCHANGED <<loopVarPerIteration, valueCall, averagePrice, agentVars, mpc, tick, bookVars,
                todo, loop, histVars, role, funds, inventory, riskAversion,
                prodVars, life, numLive>>

\* agentUpdate's belief arithmetic for a returned ask of item c with
\* numberAccepted n, read while the item's averagePrice is itemAvg
ApplyAskBelief(i, c, n, itemAvg) ==
    LET pr == priceBelief[i][c]
        b == AskBelief(pr, itemAvg, n)
    IN  /\ lastUpdate[i].count < MaxUpdates
        /\ b.returns
        /\ priceBelief' = [priceBelief EXCEPT ![i][c] = [high |-> b.high, low |-> b.low]]
        /\ lastUpdate' = [lastUpdate EXCEPT ![i] =
                [kind |-> "ask", item |-> c, numberAccepted |-> n, itemAvg |-> itemAvg,
                 high |-> pr.high, low |-> pr.low, count |-> lastUpdate[i].count + 1]]
        /\ BeliefFrame

ApplyBidBelief(i, c, n, itemAvg) ==
    LET pr == priceBelief[i][c]
        b == BidBelief(pr, itemAvg, n)
    IN  /\ lastUpdate[i].count < MaxUpdates
        /\ b.returns
        /\ priceBelief' = [priceBelief EXCEPT ![i][c] = [high |-> b.high, low |-> b.low]]
        /\ lastUpdate' = [lastUpdate EXCEPT ![i] =
                [kind |-> "bid", item |-> c, numberAccepted |-> n, itemAvg |-> itemAvg,
                 high |-> pr.high, low |-> pr.low, count |-> lastUpdate[i].count + 1]]
        /\ BeliefFrame

NextBelief ==
    \E n \in {0, 2}, itemAvg \in PriceGrid :
        \/ ApplyAskBelief(1, "Food", n, itemAvg)
        \/ ApplyBidBelief(1, "Food", n, itemAvg)

SpecBelief == InitBelief /\ [][NextBelief]_vars

-----------------------------------------------------------------------------
(* performProduction step by step.  agent.job points to the ProductionSet    *)
(* of the role, so "sort.Sort(ByMarketValue(agent.job.methods))" and every   *)
(* later "agent.job.methods[executedIndex]" are unsynchronised accesses to   *)
(* a slice that every agent of the role sorts: each access is a step.        *)

\* no goroutine has panicked (a panic ends the program)
Running == \A i \in Agents : prod[i].step # "panic"

ProdFrame ==
    UNCHANGED <<loopVarPerIteration, valueCall, averagePrice, askSlice, bidSlice, mpc, tick,
                bookVars, todo, loop, histVars, role, priceBelief, riskAversion,
                lastUpdate, life, numLive>>

\* insertion sort of a slice of two: "data.Less(1, 0)"
ProdSortLess(i) ==
    /\ Running
    /\ pc[i] = "produce"
    /\ prod[i].step = "none"
    /\ LET a == methods[role[i]]
           less == MarketValueLess(a[2], a[1], averagePrice)
       IN  prod' = [prod EXCEPT ![i] = [NoProd EXCEPT !.less = less,
                        !.step = IF less THEN "swapLoad" ELSE "select"]]
    /\ prodStart' = [prodStart EXCEPT ![i] =
            [NoProdStart EXCEPT !.funds = funds[i], !.inventory = inventory[i],
                                !.sorted = methods[role[i]]]]
    /\ UNCHANGED <<pc, funds, inventory, methods>>
    /\ ProdFrame

\* "a[i], a[j] = a[j], a[i]" of Swap(1, 0): the two operands are read
ProdSwapLoad(i) ==
    /\ Running
    /\ prod[i].step = "swapLoad"
    /\ prod' = [prod EXCEPT ![i].loaded = methods[role[i]], ![i].step = "swapStore1"]
    /\ UNCHANGED <<pc, funds, inventory, methods, prodStart>>
    /\ ProdFrame

\* a[1] = the a[0] read
ProdSwapStore1(i) ==
    /\ Running
    /\ prod[i].step = "swapStore1"
    /\ methods' = [methods EXCEPT ![role[i]][2] = prod[i].loaded[1]]
    /\ prod' = [prod EXCEPT ![i].step = "swapStore2"]
    /\ UNCHANGED <<pc, funds, inventory, prodStart>>
    /\ ProdFrame

\* a[0] = the a[1] read
ProdSwapStore2(i) ==
    /\ Running
    /\ prod[i].step = "swapStore2"
    /\ methods' = [methods EXCEPT ![role[i]][1] = prod[i].loaded[2]]
    /\ prod' = [prod EXCEPT ![i].step = "select"]
    /\ prodStart' = [prodStart EXCEPT ![i].sorted = methods'[role[i]]]
    /\ UNCHANGED <<pc, funds, inventory>>
    /\ ProdFrame

\* one iteration of "for methodIndex, method := range agent.job.methods";
\* after the last one, "if executedIndex == -1 { agent.funds -= penalty }"
ProdSelect(i) ==
    /\ Running
    /\ prod[i].step = "select"
    /\ LET m == methods[role[i]][prod[i].methodIndex + 1]
           accepted == Executable(Method(m), inventory[i])
           last == prod[i].methodIndex + 1 >= Len(methods[role[i]])
       IN  /\ prodStart' = [prodStart EXCEPT ![i].ranking = Append(@, m),
                               ![i].checked = IF accepted THEN m ELSE @]
           /\ IF accepted
              THEN /\ prod' = [prod EXCEPT ![i].executedIndex = prod[i].methodIndex,
                                           ![i].step = "inputs"]
                   /\ UNCHANGED <<pc, funds>>
              ELSE IF last
              THEN /\ prod' = [prod EXCEPT ![i].step = "done"]
                   /\ funds' = [funds EXCEPT ![i] = @ - Penalty]
                   /\ pc' = [pc EXCEPT ![i] = "offers"]
              ELSE /\ prod' = [prod EXCEPT ![i].methodIndex = @ + 1]
                   /\ UNCHANGED <<pc, funds>>
    /\ UNCHANGED <<inventory, methods>>
    /\ ProdFrame

\* "for _, input := range agent.job.methods[executedIndex].inputs"
ProdInputs(i) ==
    /\ Running
    /\ prod[i].step = "inputs"
    /\ LET m == methods[role[i]][prod[i].executedIndex + 1]
       IN  inventory' = [inventory EXCEPT ![i] = InvAddAll(@, Method(m).inputs, -1)]
    /\ prod' = [prod EXCEPT ![i].step = "catalysts"]
    /\ UNCHANGED <<pc, funds, methods, prodStart>>
    /\ ProdFrame

\* "range agent.job.methods[executedIndex].catalysts": the slice ranged over
ProdCatalysts(i) ==
    /\ Running
    /\ prod[i].step = "catalysts"
    /\ LET m == methods[role[i]][prod[i].executedIndex + 1]
       IN  prod' = [prod EXCEPT ![i].catalysts = Method(m).catalysts,
                                ![i].catalystIndex = 0, ![i].unit = 0,
                                ![i].step = IF Method(m).catalysts = <<>>
                                            THEN "outputs" ELSE "consume"]
    /\ UNCHANGED <<pc, funds, inventory, methods, prodStart>>
    /\ ProdFrame

\* one iteration of "for i := 0; i < catalyst.quantity; i++ { if
\* agent.job.methods[executedIndex].consumption[catalystIndex] > rand.Float64()
\* { inventory[catalyst.item]-- } }"; an index beyond consumption panics
ProdConsume(i, unlucky) ==
    /\ Running
    /\ prod[i].step = "consume"
    /\ LET m == methods[role[i]][prod[i].executedIndex + 1]
           catalyst == prod[i].catalysts[prod[i].catalystIndex + 1]
           inRange == prod[i].catalystIndex + 1 <= Len(Method(m).consumption)
           lastUnit == prod[i].unit + 1 >= catalyst.quantity
           lastCatalyst == prod[i].catalystIndex + 1 >= Len(prod[i].catalysts)
       IN  IF ~inRange
           THEN /\ prod' = [prod EXCEPT ![i].step = "panic"]
                /\ unlucky = FALSE
                /\ UNCHANGED <<inventory, prodStart>>
           ELSE /\ unlucky => Method(m).consumption[prod[i].catalystIndex + 1] > 0
                /\ inventory' = [inventory EXCEPT ![i] =
                        IF unlucky
                        THEN InvSet(@, catalyst.item, InvGet(@, catalyst.item) - 1)
                        ELSE @]
                /\ prodStart' = [prodStart EXCEPT ![i].consumed =
                        IF unlucky THEN Append(@, catalyst.item) ELSE @]
                /\ prod' = [prod EXCEPT
                        ![i].unit = IF lastUnit THEN 0 ELSE @ + 1,
                        ![i].catalystIndex = IF lastUnit THEN @ + 1 ELSE @,
                        ![i].step = IF lastUnit /\ lastCatalyst THEN "outputs" ELSE @]
    /\ UNCHANGED <<pc, funds, methods>>
    /\ ProdFrame

\* "for _, output := range agent.job.methods[executedIndex].outputs"
ProdOutputs(i) ==
    /\ Running
    /\ prod[i].step = "outputs"
    /\ LET m == methods[role[i]][prod[i].executedIndex + 1]
       IN  inventory' = [inventory EXCEPT ![i] = InvAddAll(@, Method(m).outputs, 1)]
    /\ prod' = [prod EXCEPT ![i].step = "done"]
    /\ pc' = [pc EXCEPT ![i] = "offers"]
    /\ UNCHANGED <<funds, methods, prodStart>>
    /\ ProdFrame

-----------------------------------------------------------------------------
(* Offer generation: generateAsks and generateBids, main.go 348-461 *)

\* gatherRequirements: what one method asks of commodity c
Requirement(method, c) ==
    SumSeq([k \in 1..Len(method.inputs) |->
                IF method.inputs[k].item = c THEN method.inputs[k].quantity ELSE 0])
    + SumSeq([k \in 1..Len(method.catalysts) |->
                IF method.catalysts[k].item = c THEN method.catalysts[k].quantity ELSE 0])

\* the keys of gatherRequirements(method)
RequiredItems(method) ==
    {method.inputs[k].item : k \in 1..Len(method.inputs)}
        \cup {method.catalysts[k].item : k \in 1..Len(method.catalysts)}

\* the slices a range over a map with these entries may build
Arrangements(S) ==
    {s \in [1..Cardinality(S) -> S] : \A j, k \in 1..Cardinality(S) : j # k => s[j] # s[k]}

\* generateAsks: an ask for every inventory key no method requires
generateAsks(a, inv, belief) ==
    Arrangements({[id |-> 0, item |-> c, quantity |-> 1,
                   sellFor |-> Div(belief[c].high + belief[c].low, 2),
                   numberOffered |-> inv[c], numberAccepted |-> 0] :
                  c \in DOMAIN inv \ UNION {RequiredItems(Method(a[k])) : k \in 1..Len(a)}})

\* generateBids: pvm is keyed by method pointer, so spv holds every method of
\* the slice once; the requirements of all of them are added riskAversion * 2
\* times, the holdings are taken off, and every key gets a bid
generateBids(a, inv, belief, risk) ==
    LET spv == {a[k] : k \in 1..Len(a)}
        Need(c) == LET ms == {m \in spv : Requirement(Method(m), c) > 0}
                       RECURSIVE Total(_)
                       Total(S) == IF S = {} THEN 0
                                   ELSE LET m == CHOOSE x \in S : TRUE
                                        IN  Requirement(Method(m), c) + Total(S \ {m})
                   IN  risk * 2 * Total(ms)
    IN  Arrangements({[id |-> 0, item |-> c, quantity |-> 1,
                       buyFor |-> Div(belief[c].high + belief[c].low, 2),
                       numberOffered |-> Need(c) - InvGet(inv, c), numberAccepted |-> 0] :
                      c \in UNION {RequiredItems(Method(m)) : m \in spv}})

\* "askSlice = generateAsks(&agent); bidSlice = generateBids(&agent)"
GenerateOffers(i) ==
    /\ pc[i] = "offers"
    /\ askSlice' \in {[askSlice EXCEPT ![i] = s] :
                        s \in generateAsks(methods[role[i]], inventory[i], priceBelief[i])}
    /\ bidSlice' \in {[bidSlice EXCEPT ![i] = s] :
                        s \in generateBids(methods[role[i]], inventory[i], priceBelief[i],
                                           riskAversion[i])}
    /\ pc' = [pc EXCEPT ![i] = "sendAsks"]
    /\ UNCHANGED <<traderVars, prodVars, lastUpdate, life, numLive, loopVarPerIteration, valueCall,
                   averagePrice, mpc, tick, bookVars, todo, loop, histVars>>

\* "askSlice = generateAsks(&agent)", as a step of its own: agent.job.methods
\* is read here and read again by generateBids
GenerateAsks(i) ==
    /\ pc[i] = "offers"
    /\ askSlice' \in {[askSlice EXCEPT ![i] = s] :
                        s \in generateAsks(methods[role[i]], inventory[i], priceBelief[i])}
    /\ pc' = [pc EXCEPT ![i] = "bids"]
    /\ UNCHANGED <<traderVars, prodVars, lastUpdate, life, numLive, loopVarPerIteration, valueCall,
                   averagePrice, bidSlice, mpc, tick, bookVars, todo, loop, histVars>>

\* "bidSlice = generateBids(&agent)", as a step of its own
GenerateBids(i) ==
    /\ pc[i] = "bids"
    /\ bidSlice' \in {[bidSlice EXCEPT ![i] = s] :
                        s \in generateBids(methods[role[i]], inventory[i], priceBelief[i],
                                           riskAversion[i])}
    /\ pc' = [pc EXCEPT ![i] = "sendAsks"]
    /\ UNCHANGED <<traderVars, prodVars, lastUpdate, life, numLive, loopVarPerIteration, valueCall,
                   averagePrice, askSlice, mpc, tick, bookVars, todo, loop, histVars>>

-----------------------------------------------------------------------------
(* performProduction on arbitrary holdings and prices *)

\* price vectors under which both value orders of each of these roles occur
ProdPrices ==
    {[c \in Commodities |-> InitialAveragePrice],
     [c \in Commodities |-> IF c = "Food" THEN 10 ELSE InitialAveragePrice],
     [c \in Commodities |-> IF c = "Wood" THEN 20 ELSE InitialAveragePrice]}

ProdRoles == {"Farmer", "Woodcutter"}

Swapped(a) == <<a[2], a[1]>>

\* the orders earlier sorts, under earlier prices, may have left the slices in
MethodOrders ==
    {[r \in Roles |-> IF r \in flipped THEN Swapped(InitialMethods[r])
                      ELSE InitialMethods[r]] : flipped \in SUBSET ProdRoles}

\* what a role consumes
Needs(r) == IF r = "Farmer" THEN "Wood" ELSE "Food"

Holdings(r) ==
    {[c \in {"Tools", Needs(r)} |-> IF c = "Tools" THEN t ELSE n] : t \in {0, 1}, n \in {0, 2}}

\* Every agent is about to call performProduction.
InitProd ==
    /\ loopVarPerIteration = TRUE
    /\ valueCall = NoCall
    /\ averagePrice \in ProdPrices
    /\ pc = [i \in Agents |-> "produce"]
    /\ askSlice = [i \in Agents |-> <<>>]
    /\ bidSlice = [i \in Agents |-> <<>>]
    /\ MarketAtRest
    /\ role \in [Agents -> ProdRoles]
    /\ funds = [i \in Agents |-> 10 * Unit]
    /\ inventory \in [Agents -> UNION {Holdings(r) : r \in ProdRoles}]
    /\ \A i \in Agents : inventory[i] \in Holdings(role[i])
    /\ priceBelief = [i \in Agents |-> [c \in Commodities |->
                        RandomBelief(InitialAveragePrice, 50, 50)]]
    /\ riskAversion = [i \in Agents |-> 1]
    /\ methods \in MethodOrders
    /\ prod = [i \in Agents |-> NoProd]
    /\ prodStart = [i \in Agents |-> NoProdStart]
    /\ lastUpdate = [i \in Agents |-> NoUpdate]
    /\ life = [i \in Agents |-> NoLife]
    /\ numLive = CohortSizes(role)

NextProd ==
    \E i \in Agents :
        \/ ProdSortLess(i)
        \/ ProdSwapLoad(i)
        \/ ProdSwapStore1(i)
        \/ ProdSwapStore2(i)
        \/ ProdSelect(i)
        \/ ProdInputs(i)
        \/ ProdCatalysts(i)
        \/ \E unlucky \in BOOLEAN : ProdConsume(i, unlucky)
        \/ ProdOutputs(i)
        \/ Running /\ GenerateOffers(i)
        \/ Running /\ GenerateAsks(i)
        \/ Running /\ GenerateBids(i)

SpecProd == InitProd /\ [][NextProd]_vars

-----------------------------------------------------------------------------
(* getAverageProductionValue on arbitrary beliefs and production numbers *)

MaxProductionNumber == 3

\* rand.Float64() of randomPriceBelief for the agent whose values are asked
ValueRand == {0, 33, 67}

ProductionNumbers == -1..MaxProductionNumber

InitValue ==
    /\ loopVarPerIteration = TRUE
    /\ valueCall = NoCall
    /\ averagePrice = [c \in Commodities |-> InitialAveragePrice]
    /\ pc = [i \in Agents |-> "produce"]
    /\ askSlice = [i \in Agents |-> <<>>]
    /\ bidSlice = [i \in Agents |-> <<>>]
    /\ MarketAtRest
    /\ role \in [Agents -> ProdRoles]
    /\ funds = [i \in Agents |-> 50 * Unit]
    /\ inventory = [i \in Agents |-> [c \in {"Tools", Needs(role[i])} |-> 0]]
    /\ \E fh \in ValueRand, fl \in ValueRand, wh \in ValueRand, wl \in ValueRand :
          priceBelief = [i \in Agents |-> [c \in Commodities |->
              CASE i = 1 /\ c = "Food" -> RandomBelief(InitialAveragePrice, fh, fl)
                [] i = 1 /\ c = "Wood" -> RandomBelief(InitialAveragePrice, wh, wl)
                [] OTHER -> RandomBelief(InitialAveragePrice, 50, 50)]]
    /\ riskAversion = [i \in Agents |-> 1]
    /\ methods = InitialMethods
    /\ prod = [i \in Agents |-> NoProd]
    /\ prodStart = [i \in Agents |-> NoProdStart]
    /\ lastUpdate = [i \in Agents |-> NoUpdate]
    /\ life = [i \in Agents |-> NoLife]
    /\ numLive = CohortSizes(role)

\* a call "getAverageProductionValue(&agent, productionNumber)"
GetAverageProductionValue(i, productionNumber) ==
    /\ LET r == getAverageProductionValue(methods[role[i]], priceBelief[i], productionNumber)
       IN  valueCall' = [agent |-> i, productionNumber |-> productionNumber,
                         outcome |-> r.outcome, productionValue |-> r.productionValue]
    /\ UNCHANGED <<loopVarPerIteration, averagePrice, agentVars, mpc, tick, bookVars,
                   todo, loop, histVars, traderVars, prodVars, lastUpdate, life, numLive>>

NextValue ==
    \E i \in Agents, productionNumber \in ProductionNumbers :
        GetAverageProductionValue(i, productionNumber)

SpecValue == InitValue /\ [][NextValue]_vars

-----------------------------------------------------------------------------
(* The matching engine on arbitrary submitted batches *)

AskOf(c, n, p) ==
    [id |-> 0, item |-> c, quantity |-> 1, sellFor |-> p,
     numberOffered |-> n, numberAccepted |-> 0]

BidOf(c, n, p) ==
    [id |-> 0, item |-> c, quantity |-> 1, buyFor |-> p,
     numberOffered |-> n, numberAccepted |-> 0]

FoodAsks ==
    {AskOf("Food", 3, 1000), AskOf("Food", 5, 1000), AskOf("Food", 3, 1100),
     AskOf("Food", 5, 1500)}
FoodBids ==
    {BidOf("Food", -1, 1000), BidOf("Food", 3, 1100), BidOf("Food", 3, 1200),
     BidOf("Food", 5, 1200)}
WoodAsk == AskOf("Wood", 3, 1000)
WoodBid == BidOf("Wood", 3, 1200)

\* the batches the first agent may be sending: one offer
AskBatchesOfOne == {<<WoodAsk>>} \cup {<<x>> : x \in FoodAsks}

BidBatchesOfOne == {<<WoodBid>>} \cup {<<x>> : x \in FoodBids}

\* the batches any other agent may be sending: none, one offer, or two offers
\* for two commodities in either order
AskBatches ==
    {<<>>} \cup AskBatchesOfOne
        \cup {<<AskOf("Food", 5, 1000), WoodAsk>>, <<WoodAsk, AskOf("Food", 5, 1000)>>}

BidBatches ==
    {<<>>} \cup BidBatchesOfOne
        \cup {<<BidOf("Food", 3, 1200), WoodBid>>, <<WoodBid, BidOf("Food", 3, 1200)>>}

\* The state in which a tick's ask collection has just ended: every agent
\* has had its ask batch received and is now sending its bid batch.
InitMatch ==
    /\ loopVarPerIteration \in BOOLEAN
    /\ valueCall = NoCall
    /\ averagePrice = [c \in Commodities |-> InitialAveragePrice]
    /\ pc = [i \in Agents |-> "sendBids"]
    /\ askSlice \in [Agents -> AskBatches]
    /\ askSlice[1] \in AskBatchesOfOne
    /\ bidSlice \in [Agents -> BidBatches]
    /\ bidSlice[1] \in BidBatchesOfOne
    /\ mpc = "collectBids"
    /\ tick = 1
    /\ LET st == CollectChannels([heap |-> <<>>, typed |-> EmptyBook], 1,
                                 askSlice, Agents, loopVarPerIteration)
       IN  /\ askHeap = st.heap
           /\ asksTyped = st.typed
    /\ bidHeap = <<>>
    /\ bidsTyped = EmptyBook
    /\ todo = {}
    /\ loop = NoLoop
    /\ collected = [asks |-> <<>>, bids |-> <<>>]
    /\ passStart = NoPass
    /\ trades = <<>>
    /\ TradersAtRest

NextMatch ==
    \/ CollectBids
    \/ \E c \in Commodities : BeginCom(c)
    \/ MatchIter
    \/ PriceUpdate

SpecMatch == InitMatch /\ [][NextMatch]_vars

\* The matching pass over a book collected from more traders than the
\* agents followed here: the agents are Farmers that have produced 2 or 4
\* Food and sell it, and PriceBidders further traders, Woodcutters or Miners
\* built by their constructors, bid for Food. A trader of riskAversion 1
\* requires 4 Food: granted 2 it bids for 2, granted 5 it bids for -1. All
\* prices are midpoints of beliefs randomPriceBelief gives for an average
\* price of 3.00, which lie between 1.50 and 4.50.
PriceBidders == 4

PriceAsks == {AskOf("Food", 2, 160), AskOf("Food", 4, 300)}

PriceBids == {BidOf("Food", 2, 440), BidOf("Food", -1, 160)}

\* the receive on the channels behind those of the agents: one bid each
RECURSIVE CollectOthers(_, _, _, _)
CollectOthers(st, k, others, perIteration) ==
    IF k > Len(others) THEN st
    ELSE CollectOthers(CollectBatch(st, <<others[k]>>, NumAgents + k, perIteration),
                       k + 1, others, perIteration)

\* The state in which a tick's collection and sorts have just ended.
InitPrice ==
    /\ loopVarPerIteration \in BOOLEAN
    /\ valueCall = NoCall
    /\ averagePrice = [c \in Commodities |-> InitialAveragePrice]
    /\ pc = [i \in Agents |-> "bidSent"]
    /\ askSlice \in [Agents -> {<<x>> : x \in PriceAsks}]
    /\ bidSlice = [i \in Agents |-> <<BidOf("Wood", 3, 300), BidOf("Tools", 2, 300)>>]
    /\ mpc = "match"
    /\ tick = 1
    /\ \E others \in [1..PriceBidders -> PriceBids] :
          LET asksIn == CollectChannels([heap |-> <<>>, typed |-> EmptyBook], 1,
                                        askSlice, Agents, loopVarPerIteration)
              bidsIn == CollectOthers(
                            CollectChannels([heap |-> <<>>, typed |-> EmptyBook], 1,
                                            bidSlice, Agents, loopVarPerIteration),
                            1, others, loopVarPerIteration)
          IN  /\ askHeap = asksIn.heap
              /\ asksTyped \in SortedBooks(asksIn.typed, asksIn.heap, TRUE)
              /\ bidHeap = bidsIn.heap
              /\ bidsTyped \in SortedBooks(bidsIn.typed, bidsIn.heap, FALSE)
    /\ todo = Commodities
    /\ loop = NoLoop
    /\ collected = [asks |-> askHeap, bids |-> bidHeap]
    /\ passStart = NoPass
    /\ trades = <<>>
    /\ TradersAtRest

NextPrice ==
    \/ \E c \in Commodities : BeginCom(c)
    \/ MatchIter
    \/ PriceUpdate

SpecPrice == InitPrice /\ [][NextPrice]_vars

-----------------------------------------------------------------------------
(* The agent goroutine: agentRun, main.go 172-211 *)

\* sort.Sort on a slice of two is an insertion sort: one Less(1, 0) and, when
\* it holds, one Swap(1, 0)
SortByMarketValue(a, price) ==
    IF MarketValueLess(a[2], a[1], price) THEN <<a[2], a[1]>> ELSE a

\* "for methodIndex, method := range agent.job.methods { ... if accepted {
\* executedIndex = methodIndex; break } }", counted from 1; 0 is the -1 of the code
FirstExecutable(a, inv) ==
    LET ok == {k \in 1..Len(a) : Executable(Method(a[k]), inv)}
    IN  IF ok = {} THEN 0 ELSE CHOOSE k \in ok : \A j \in ok : k <= j

\* the units each catalyst may lose: one "consumption[catalystIndex] >
\* rand.Float64()" per unit, rand.Float64() being of [0, 1)
ConsumptionChoices(method) ==
    {u \in [1..Len(method.catalysts) ->
                0..SumSeq([k \in 1..Len(method.catalysts) |-> method.catalysts[k].quantity])] :
        \A k \in 1..Len(method.catalysts) :
            /\ u[k] <= method.catalysts[k].quantity
            /\ method.consumption[k] <= 0 => u[k] = 0
            /\ method.consumption[k] >= 100 => u[k] = method.catalysts[k].quantity}

\* the inventory after the method ran: inputs removed, catalysts worn, outputs added
Execute(method, inv, u) ==
    LET inv1 == InvAddAll(inv, method.inputs, -1)
        inv2 == InvAddAll(inv1, [k \in 1..Len(method.catalysts) |->
                                    CSet(method.catalysts[k].item, u[k])], -1)
    IN  InvAddAll(inv2, method.outputs, 1)

\* a performProduction after which an agent the penalty left without funds
\* goes straight to its death notification
PerformProductionIdleStops(i) ==
    /\ pc[i] = "produce"
    /\ LET a == SortByMarketValue(methods[role[i]], averagePrice)
           k == FirstExecutable(a, inventory[i])
       IN  /\ methods' = [methods EXCEPT ![role[i]] = a]
           /\ IF k = 0
              THEN /\ funds' = [funds EXCEPT ![i] = @ - Penalty]
                   /\ UNCHANGED inventory
              ELSE /\ \E u \in ConsumptionChoices(Method(a[k])) :
                        inventory' = [inventory EXCEPT ![i] = Execute(Method(a[k]), @, u)]
                   /\ UNCHANGED funds
           /\ life' = [life EXCEPT ![i].produced = @ + 1,
                                   ![i].idleOnly = @ /\ k = 0]
    /\ pc' = [pc EXCEPT ![i] = IF funds'[i] <= 0 THEN "sendDead" ELSE "offers"]
    /\ UNCHANGED <<numLive, role, priceBelief, riskAversion, prod, prodStart, lastUpdate,
                   loopVarPerIteration, valueCall, averagePrice, askSlice, bidSlice, mpc, tick,
                   bookVars, todo, loop, histVars>>

\* performProduction(&agent), run without another agent's call in between
\* (the interleavings of two calls are the steps ProdSortLess .. ProdOutputs)
PerformProduction(i) ==
    /\ pc[i] = "produce"
    /\ LET a == SortByMarketValue(methods[role[i]], averagePrice)
           k == FirstExecutable(a, inventory[i])
       IN  /\ methods' = [methods EXCEPT ![role[i]] = a]
           /\ IF k = 0
              THEN /\ funds' = [funds EXCEPT ![i] = @ - Penalty]
                   /\ UNCHANGED inventory
              ELSE /\ \E u \in ConsumptionChoices(Method(a[k])) :
                        inventory' = [inventory EXCEPT ![i] = Execute(Method(a[k]), @, u)]
                   /\ UNCHANGED funds
           /\ life' = [life EXCEPT ![i].produced = @ + 1,
                                   ![i].idleOnly = @ /\ k = 0]
    /\ pc' = [pc EXCEPT ![i] = "offers"]
    /\ UNCHANGED <<numLive, role, priceBelief, riskAversion, prod, prodStart, lastUpdate,
                   loopVarPerIteration, valueCall, averagePrice, askSlice, bidSlice, mpc, tick,
                   bookVars, todo, loop, histVars>>

\* an agent that goes to its settle step once its bids were taken, without
\* receiving any results
AgentParkNoReceive(i) ==
    /\ pc[i] \in {"askSent", "bidSent", "gotAsks"}
    /\ pc' = [pc EXCEPT ![i] = CASE pc[i] = "askSent" -> "sendBids"
                                 [] pc[i] = "bidSent" -> "update"
                                 [] pc[i] = "gotAsks" -> "recvBids"]
    /\ UNCHANGED <<traderVars, prodVars, lastUpdate, life, numLive, loopVarPerIteration, valueCall, averagePrice, askSlice, bidSlice, mpc, tick,
                   bookVars, todo, loop, histVars>>

\* an agent whose send or receive was served goes on to its next channel operation
AgentPark(i) ==
    /\ pc[i] \in {"askSent", "bidSent", "gotAsks"}
    /\ pc' = [pc EXCEPT ![i] = CASE pc[i] = "askSent" -> "sendBids"
                                 [] pc[i] = "bidSent" -> "recvAsks"
                                 [] pc[i] = "gotAsks" -> "recvBids"]
    /\ UNCHANGED <<traderVars, prodVars, lastUpdate, life, numLive, loopVarPerIteration, valueCall, averagePrice, askSlice, bidSlice, mpc, tick,
                   bookVars, todo, loop, histVars>>

\* a settlement of asks that is paid and keeps the units sold
RECURSIVE UpdateAsksKeepsStock(_, _, _)
UpdateAsksKeepsStock(ag, slice, price) ==
    IF slice = <<>> THEN ag
    ELSE LET askSet == Head(slice)
             b == AskBelief(ag.priceBelief[askSet.item], price[askSet.item],
                            askSet.numberAccepted)
             sold == askSet.numberAccepted > 0
         IN  UpdateAsksKeepsStock(
                [funds |-> IF sold
                           THEN ag.funds + askSet.quantity * askSet.numberAccepted * askSet.sellFor
                           ELSE ag.funds,
                 inventory |-> ag.inventory,
                 priceBelief |-> [ag.priceBelief EXCEPT ![askSet.item] =
                                    [high |-> b.high, low |-> b.low]],
                 returns |-> ag.returns /\ b.returns],
                Tail(slice), price)

\* agentUpdate over the returned asks: ag = [funds, inventory, priceBelief, returns]
RECURSIVE UpdateAsks(_, _, _)
UpdateAsks(ag, slice, price) ==
    IF slice = <<>> THEN ag
    ELSE LET askSet == Head(slice)
             b == AskBelief(ag.priceBelief[askSet.item], price[askSet.item],
                            askSet.numberAccepted)
             sold == askSet.numberAccepted > 0
         IN  UpdateAsks(
                [funds |-> IF sold
                           THEN ag.funds + askSet.quantity * askSet.numberAccepted * askSet.sellFor
                           ELSE ag.funds,
                 inventory |-> IF sold
                               THEN InvSet(ag.inventory, askSet.item,
                                           InvGet(ag.inventory, askSet.item)
                                               - askSet.quantity * askSet.numberAccepted)
                               ELSE ag.inventory,
                 priceBelief |-> [ag.priceBelief EXCEPT ![askSet.item] =
                                    [high |-> b.high, low |-> b.low]],
                 returns |-> ag.returns /\ b.returns],
                Tail(slice), price)

\* agentUpdate over the returned bids
RECURSIVE UpdateBids(_, _, _)
UpdateBids(ag, slice, price) ==
    IF slice = <<>> THEN ag
    ELSE LET bidSet == Head(slice)
             b == BidBelief(ag.priceBelief[bidSet.item], price[bidSet.item],
                            bidSet.numberAccepted)
             bought == bidSet.numberAccepted > 0
         IN  UpdateBids(
                [funds |-> IF bought
                           THEN ag.funds - bidSet.quantity * bidSet.numberAccepted * bidSet.buyFor
                           ELSE ag.funds,
                 inventory |-> IF bought
                               THEN InvSet(ag.inventory, bidSet.item,
                                           InvGet(ag.inventory, bidSet.item)
                                               + bidSet.quantity * bidSet.numberAccepted)
                               ELSE ag.inventory,
                 priceBelief |-> [ag.priceBelief EXCEPT ![bidSet.item] =
                                    [high |-> b.high, low |-> b.low]],
                 returns |-> ag.returns /\ b.returns],
                Tail(slice), price)

\* "if agent.funds <= 0 { alive = false }"
InsolventBelowZero(f) == f < 0
Insolvent(f) == f <= 0

\* an agentUpdate that stores the agent's belief as the price of Food
AgentUpdatePricing(i) ==
    /\ pc[i] = "update"
    /\ LET ag0 == [funds |-> funds[i], inventory |-> inventory[i],
                   priceBelief |-> priceBelief[i], returns |-> TRUE]
           ag == UpdateBids(UpdateAsks(ag0, askSlice[i], averagePrice),
                            bidSlice[i], averagePrice)
       IN  /\ ag.returns
           /\ funds' = [funds EXCEPT ![i] = ag.funds]
           /\ inventory' = [inventory EXCEPT ![i] = ag.inventory]
           /\ priceBelief' = [priceBelief EXCEPT ![i] = ag.priceBelief]
           /\ averagePrice' = [averagePrice EXCEPT !["Food"] = ag.priceBelief["Food"].high]
           /\ pc' = [pc EXCEPT ![i] = IF Insolvent(ag.funds) THEN "sendDead" ELSE "produce"]
    /\ life' = [life EXCEPT ![i].cycles = @ + 1]
    /\ UNCHANGED <<numLive, role, riskAversion, prodVars, lastUpdate, loopVarPerIteration, valueCall,
                   askSlice, bidSlice, mpc, tick, bookVars, todo, loop, histVars>>

\* an agent that tests the funds it had before settlement
AgentUpdateTestsFirst(i) ==
    /\ pc[i] = "update"
    /\ LET ag0 == [funds |-> funds[i], inventory |-> inventory[i],
                   priceBelief |-> priceBelief[i], returns |-> TRUE]
           ag == UpdateBids(UpdateAsks(ag0, askSlice[i], averagePrice),
                            bidSlice[i], averagePrice)
       IN  /\ ag.returns
           /\ funds' = [funds EXCEPT ![i] = ag.funds]
           /\ inventory' = [inventory EXCEPT ![i] = ag.inventory]
           /\ priceBelief' = [priceBelief EXCEPT ![i] = ag.priceBelief]
           /\ pc' = [pc EXCEPT ![i] = IF Insolvent(funds[i]) THEN "sendDead" ELSE "produce"]
    /\ life' = [life EXCEPT ![i].cycles = @ + 1,
                            ![i].idleOnly =
                                /\ @
                                /\ \A k \in 1..Len(askSlice[i]) : askSlice[i][k].numberAccepted = 0
                                /\ \A k \in 1..Len(bidSlice[i]) : bidSlice[i][k].numberAccepted = 0]
    /\ UNCHANGED <<numLive, role, riskAversion, prodVars, lastUpdate, loopVarPerIteration, valueCall,
                   averagePrice, askSlice, bidSlice, mpc, tick, bookVars, todo, loop,
                   histVars>>

\* "agentUpdate(&agent, &askSlice, &bidSlice)" and the test that ends the
\* cycle; an agentUpdate whose INVERT loop never ends never returns
AgentUpdate(i) ==
    /\ pc[i] = "update"
    /\ LET ag0 == [funds |-> funds[i], inventory |-> inventory[i],
                   priceBelief |-> priceBelief[i], returns |-> TRUE]
           ag == UpdateBids(UpdateAsks(ag0, askSlice[i], averagePrice),
                            bidSlice[i], averagePrice)
       IN  /\ ag.returns
           /\ funds' = [funds EXCEPT ![i] = ag.funds]
           /\ inventory' = [inventory EXCEPT ![i] = ag.inventory]
           /\ priceBelief' = [priceBelief EXCEPT ![i] = ag.priceBelief]
           /\ pc' = [pc EXCEPT ![i] = IF Insolvent(ag.funds) THEN "sendDead" ELSE "produce"]
    /\ life' = [life EXCEPT ![i].cycles = @ + 1,
                            ![i].idleOnly =
                                /\ @
                                /\ \A k \in 1..Len(askSlice[i]) : askSlice[i][k].numberAccepted = 0
                                /\ \A k \in 1..Len(bidSlice[i]) : bidSlice[i][k].numberAccepted = 0]
    /\ UNCHANGED <<numLive, role, riskAversion, prodVars, lastUpdate, loopVarPerIteration, valueCall,
                   averagePrice, askSlice, bidSlice, mpc, tick, bookVars, todo, loop,
                   histVars>>

-----------------------------------------------------------------------------
(* The clearinghouse goroutine, continued: results and the dead, main.go 972-1056 *)

RECURSIVE Matching(_, _, _)
Matching(heap, list, index) ==
    IF list = <<>> THEN <<>>
    ELSE (IF heap[Head(list)].id = index THEN <<heap[Head(list)]>> ELSE <<>>)
            \o Matching(heap, Tail(list), index)

\* "for _, asksCom := range asksTyped { for _, asksTest := range asksCom { if
\* asksTest.offeredAsk.id == uint64(index) { asksOut = append(asksOut, *asksTest) } } }"
\* (the order of a reply follows ComOrder: agentUpdate sums and updates per
\* item, so the order of the items in a reply does not show)
RECURSIVE ResultsFor(_, _, _, _)
ResultsFor(heap, typed, index, k) ==
    IF k > Len(ComOrder) THEN <<>>
    ELSE Matching(heap, typed[ComOrder[k]], index) \o ResultsFor(heap, typed, index, k + 1)

\* "for { ... }" until its break
RECURSIVE RunLoop(_)
RunLoop(st) == IF st.brk THEN st ELSE RunLoop(MatchIteration(st))

\* what a pass over commodity c that ended in st leaves of bk = [ah, bh, at,
\* bt, price] (the heaps, the two books, the prices), its price update included
PassResult(bk, c, st) ==
    [ah |-> st.ah, bh |-> st.bh,
     at |-> [bk.at EXCEPT ![c] = st.av],
     bt |-> [bk.bt EXCEPT ![c] = st.bv],
     price |-> [bk.price EXCEPT ![c] =
                    NewAveragePrice(@, st.lp.runningTotal, st.lp.totalTransactions)]]

PassBegin(bk, c) ==
    [ah |-> bk.ah, bh |-> bk.bh, av |-> bk.at[c], bv |-> bk.bt[c],
     lp |-> PassLocals(c, bk.at[c], bk.bt[c]), brk |-> FALSE, trade |-> <<>>]

\* one pass of "for com, asksCom := range asksTyped"
RunPass(bk, c) ==
    IF Len(bk.at[c]) > 0 /\ Len(bk.bt[c]) > 0
    THEN PassResult(bk, c, RunLoop(MatchIteration(PassBegin(bk, c))))
    ELSE PassResult(bk, c, PassBegin(bk, c))

RECURSIVE RunPasses(_, _)
RunPasses(bk, order) ==
    IF order = <<>> THEN bk ELSE RunPasses(RunPass(bk, Head(order)), Tail(order))

\* the heaps, the books and the prices become those of bk
BookBecomes(bk) ==
    /\ askHeap' = bk.ah
    /\ bidHeap' = bk.bh
    /\ asksTyped' = bk.at
    /\ bidsTyped' = bk.bt
    /\ averagePrice' = bk.price

\* The matching of a tick, all commodities, in one step.  A pass over a
\* commodity with an empty list changes nothing, so the map's order counts
\* among the others only.
MatchAll ==
    /\ mpc = "match"
    /\ \E order \in Arrangements({c \in Commodities :
                                    Len(asksTyped[c]) > 0 /\ Len(bidsTyped[c]) > 0}) :
          \E bk \in {RunPasses([ah |-> askHeap, bh |-> bidHeap, at |-> asksTyped,
                                  bt |-> bidsTyped, price |-> averagePrice], order)} :
              BookBecomes(bk)
    /\ todo' = {}
    /\ mpc' = "routeAsks"
    /\ UNCHANGED <<traderVars, prodVars, lastUpdate, life, numLive, loopVarPerIteration, valueCall,
                   agentVars, tick, loop, histVars>>

\* non-blocking send of its asks to every agent: who is receiving gets them
RouteAsks ==
    /\ mpc = "routeAsks"
    /\ LET ready == {i \in Agents : pc[i] = "recvAsks"}
       IN  /\ askSlice' = [i \in Agents |-> IF i \in ready
                                THEN ResultsFor(askHeap, asksTyped, i, 1) ELSE askSlice[i]]
           /\ pc' = [i \in Agents |-> IF i \in ready THEN "gotAsks" ELSE pc[i]]
           /\ life' = [i \in Agents |->
                         IF i \in ready
                         THEN [life[i] EXCEPT !.asksOut = @ + 1, !.askResTick = tick]
                         ELSE life[i]]
    /\ mpc' = "routeBids"
    /\ UNCHANGED <<numLive, traderVars, prodVars, lastUpdate, loopVarPerIteration, valueCall,
                   averagePrice, bidSlice, tick, bookVars, todo, loop, histVars>>

\* a send of the bids that waits until every agent receives
RouteBidsBlocking ==
    /\ mpc = "routeBids"
    /\ \A i \in Agents : pc[i] = "recvBids"
    /\ bidSlice' = [i \in Agents |-> ResultsFor(bidHeap, bidsTyped, i, 1)]
    /\ pc' = [i \in Agents |-> "update"]
    /\ life' = [i \in Agents |-> [life[i] EXCEPT !.bidsOut = @ + 1, !.bidResTick = tick]]
    /\ mpc' = "dead"
    /\ UNCHANGED <<numLive, traderVars, prodVars, lastUpdate, loopVarPerIteration, valueCall,
                   averagePrice, askSlice, tick, bookVars, todo, loop, histVars>>

\* non-blocking send of its bids to every agent
RouteBids ==
    /\ mpc = "routeBids"
    /\ LET ready == {i \in Agents : pc[i] = "recvBids"}
       IN  /\ bidSlice' = [i \in Agents |-> IF i \in ready
                                THEN ResultsFor(bidHeap, bidsTyped, i, 1) ELSE bidSlice[i]]
           /\ pc' = [i \in Agents |-> IF i \in ready THEN "update" ELSE pc[i]]
           /\ life' = [i \in Agents |->
                         IF i \in ready
                         THEN [life[i] EXCEPT !.bidsOut = @ + 1, !.bidResTick = tick]
                         ELSE life[i]]
    /\ mpc' = "dead"
    /\ UNCHANGED <<numLive, traderVars, prodVars, lastUpdate, loopVarPerIteration, valueCall,
                   averagePrice, askSlice, tick, bookVars, todo, loop, histVars>>

\* "maxCom := allCommodities["Food"]; for _, com := range allCommodities { if
\* com.averagePrice > maxCom.averagePrice { maxCom = com } }": Food when no
\* price is above Food's, else the first of the dearest the map's order meets
MaxComs(price) ==
    IF \A c \in Commodities : price[c] <= price["Food"] THEN {"Food"}
    ELSE {c \in Commodities : \A d \in Commodities : price[d] <= price[c]}

\* "switch maxCom.name"
RoleFor(c) ==
    CASE c = "Food" -> "Farmer"
      [] c = "Ore" -> "Miner"
      [] c = "Metal" -> "Refiner"
      [] c = "Wood" -> "Woodcutter"
      [] c = "Tools" -> "Blacksmith"

\* the values drawn for rand.Float64(), in hundredths, and for rand.Intn(2),
\* rand.Intn(4) and rand.Intn(3) in the constructors
ConstructorRand == {0}
ConstructorTools == {0, 1}
ConstructorGoods == {0}
ConstructorRisk == {0}

\* makeFarmer .. makeBlacksmith: the goods granted
Granted(r, tools, n, m) ==
    CASE r = "Farmer" -> [c \in {"Tools", "Wood"} |-> IF c = "Tools" THEN tools ELSE n + 2]
      [] r = "Miner" -> [c \in {"Tools", "Food"} |-> IF c = "Tools" THEN tools ELSE n + 2]
      [] r = "Woodcutter" -> [c \in {"Tools", "Food"} |-> IF c = "Tools" THEN tools ELSE n + 2]
      [] r = "Refiner" -> [c \in {"Ore", "Food", "Tools"} |->
                              IF c = "Tools" THEN tools ELSE IF c = "Ore" THEN 2 + m ELSE n + 2]
      [] r = "Blacksmith" -> [c \in {"Metal", "Food"} |-> IF c = "Metal" THEN 2 + m ELSE n + 2]

\* the agent a constructor returns for role r under these prices: f, rh and
\* rl are its rand.Float64() for the funds and for each belief's high and
\* low, tools, n, m and risk its rand.Intn
Constructed(r, price, f, tools, n, m, risk, rh, rl) ==
    [role |-> r,
     funds |-> 50 * Unit + Percent(50 * Unit, f),
     inventory |-> Granted(r, tools, n, m),
     priceBelief |-> [c \in Commodities |-> RandomBelief(price[c], rh[c], rl[c])],
     riskAversion |-> risk + 1]

\* the agents a constructor may return for role r under these prices
Built(r, price) ==
    {Constructed(r, price, f, tools, n, m, risk,
                 [c \in Commodities |-> 50], [c \in Commodities |-> 50]) :
        f \in ConstructorRand, tools \in ConstructorTools, n \in ConstructorGoods,
        m \in ConstructorGoods, risk \in ConstructorRisk}

\* counts that forget to take the dead off
RecountNoDecrement(count, dead, new) ==
    [r \in Roles |-> count[r] + Cardinality({i \in dead : new[i].role = r})]

\* "numFarmers--" .. "numBlacksmiths--" by the role of each dead agent
\* received, "numFarmers++" .. "numBlacksmiths++" by the role of the agent
\* started in its place
Recount(count, dead, new) ==
    [r \in Roles |-> count[r] - Cardinality({i \in dead : role[i] = r})
                              + Cardinality({i \in dead : new[i].role = r})]

\* a death check that receives nothing
DeadCheckReceivesNone ==
    /\ mpc = "dead"
    /\ mpc' = "idle"
    /\ UNCHANGED <<traderVars, agentVars, life, numLive, prodVars, lastUpdate,
                   loopVarPerIteration, valueCall, averagePrice, tick, bookVars, todo, loop, histVars>>

\* non-blocking receive on every dead channel; an agent received is replaced,
\* at its index, by a new agent of the role that makes the dearest
\* commodity, one of those in made
DeadCheckMaking(made) ==
    /\ LET dead == {i \in Agents : pc[i] = "sendDead"}
       IN  \E new \in [dead -> made] :
              /\ role' = [i \in Agents |-> IF i \in dead THEN new[i].role ELSE role[i]]
              /\ funds' = [i \in Agents |-> IF i \in dead THEN new[i].funds ELSE funds[i]]
              /\ inventory' = [i \in Agents |->
                                IF i \in dead THEN new[i].inventory ELSE inventory[i]]
              /\ priceBelief' = [i \in Agents |->
                                  IF i \in dead THEN new[i].priceBelief ELSE priceBelief[i]]
              /\ riskAversion' = [i \in Agents |->
                                   IF i \in dead THEN new[i].riskAversion ELSE riskAversion[i]]
              /\ life' = [i \in Agents |->
                            IF i \in dead THEN [NoLife EXCEPT !.startFunds = new[i].funds]
                            ELSE life[i]]
              /\ numLive' = Recount(numLive, dead, new)
              /\ pc' = [i \in Agents |-> IF i \in dead THEN "produce" ELSE pc[i]]
              /\ askSlice' = [i \in Agents |-> IF i \in dead THEN <<>> ELSE askSlice[i]]
              /\ bidSlice' = [i \in Agents |-> IF i \in dead THEN <<>> ELSE bidSlice[i]]
    /\ mpc' = "idle"
    /\ UNCHANGED <<prodVars, lastUpdate, loopVarPerIteration, valueCall, averagePrice, tick,
                   bookVars, todo, loop, histVars>>

DeadCheck ==
    /\ mpc = "dead"
    /\ DeadCheckMaking(UNION {Built(RoleFor(c), averagePrice) : c \in MaxComs(averagePrice)})

-----------------------------------------------------------------------------
(* The constructors on arbitrary draws and prices *)

\* commodity.averagePrice on the day an agent is built: 3 for all at world
\* setup, the prices of the day for a replacement
BuiltPrices ==
    {[c \in Commodities |-> InitialAveragePrice],
     [c \in Commodities |-> IF c = "Wood" THEN 500 ELSE 20],
     [c \in Commodities |-> IF c = "Food" THEN 100 ELSE 30]}

\* rand.Float64() in hundredths, rand.Intn(2), rand.Intn(4) and rand.Intn(3)
FundsRand == {0, 50, 99}
ToolsRand == {0, 1}
GoodsRand == {0, 3}
StockRand == {0, 2}
RiskRand == 0..3
OtherRand == {0, 50}

\* the draws of randomPriceBelief: one pair for Food, one for the rest
BeliefDraws ==
    {[c \in Commodities |-> IF c = "Food" THEN d[1] ELSE d[2]] :
        d \in RandGrid \X OtherRand}

\* every agent a constructor may return for role r under these prices
BuiltFrom(r, price) ==
    {Constructed(r, price, f, tools, n, m, risk, rh, rl) :
        f \in FundsRand, tools \in ToolsRand, n \in GoodsRand, m \in StockRand,
        risk \in RiskRand, rh \in BeliefDraws, rl \in BeliefDraws}

\* The clearinghouse is at its death check and the first agent has sent its
\* death notification.
InitBuilt ==
    /\ loopVarPerIteration = TRUE
    /\ valueCall = NoCall
    /\ averagePrice \in BuiltPrices
    /\ pc = [i \in Agents |-> IF i = 1 THEN "sendDead" ELSE "bidSent"]
    /\ askSlice = [i \in Agents |-> <<>>]
    /\ bidSlice = [i \in Agents |-> <<>>]
    /\ mpc = "dead"
    /\ tick = 1
    /\ askHeap = <<>>
    /\ bidHeap = <<>>
    /\ asksTyped = EmptyBook
    /\ bidsTyped = EmptyBook
    /\ todo = {}
    /\ loop = NoLoop
    /\ collected = [asks |-> <<>>, bids |-> <<>>]
    /\ passStart = NoPass
    /\ trades = <<>>
    /\ role = [i \in Agents |-> "Farmer"]
    /\ funds = [i \in Agents |-> IF i = 1 THEN 0 ELSE 50 * Unit]
    /\ inventory = [i \in Agents |-> [c \in {"Tools", "Wood"} |-> 0]]
    /\ priceBelief = [i \in Agents |-> [c \in Commodities |->
                        RandomBelief(InitialAveragePrice, 50, 50)]]
    /\ riskAversion = [i \in Agents |-> 1]
    /\ methods = InitialMethods
    /\ prod = [i \in Agents |-> NoProd]
    /\ prodStart = [i \in Agents |-> NoProdStart]
    /\ lastUpdate = [i \in Agents |-> NoUpdate]
    /\ life = [i \in Agents |-> [NoLife EXCEPT !.cycles = 1, !.produced = 1,
                                                !.startFunds = 50 * Unit]]
    /\ numLive = CohortSizes(role)

\* the death check, the constructor drawing what it may
DeadCheckDrawing ==
    /\ mpc = "dead"
    /\ DeadCheckMaking(UNION {BuiltFrom(RoleFor(c), averagePrice) : c \in MaxComs(averagePrice)})

NextBuilt == DeadCheckDrawing

SpecBuilt == InitBuilt /\ [][NextBuilt]_vars

-----------------------------------------------------------------------------
(* The program: agents and clearinghouse *)

StartRoles == {"Farmer", "Woodcutter"}

\* the lives an agent may have behind it: none, with 10 to spend, or three
\* cycles of paying the penalty for idling, which left 4 of the 10
StartLives ==
    {[NoLife EXCEPT !.startFunds = 10 * Unit],
     [NoLife EXCEPT !.startFunds = 10 * Unit, !.cycles = 3, !.produced = 3,
                    !.asksIn = 3, !.bidsIn = 3, !.asksOut = 3, !.bidsOut = 3]}

\* a longer life that left the agent 2 to spend: four cycles behind it, and
\* trades among them
SellerLife ==
    [NoLife EXCEPT !.startFunds = 10 * Unit, !.cycles = 4, !.produced = 4,
                   !.idleOnly = FALSE,
                   !.asksIn = 4, !.bidsIn = 4, !.asksOut = 4, !.bidsOut = 4]

\* what a Farmer of such a life holds: nothing to work with, Food to sell
SellerHoldings == [c \in {"Tools", "Wood", "Food"} |-> IF c = "Food" THEN 2 ELSE 0]

\* Every agent is at the top of its loop, with funds and goods as earlier
\* cycles may have left them; the clearinghouse waits for its next tick.
Init ==
    /\ loopVarPerIteration \in BOOLEAN
    /\ valueCall = NoCall
    /\ averagePrice = [c \in Commodities |-> InitialAveragePrice]
    /\ pc = [i \in Agents |-> "produce"]
    /\ askSlice = [i \in Agents |-> <<>>]
    /\ bidSlice = [i \in Agents |-> <<>>]
    /\ MarketAtRest
    /\ role = [i \in Agents |-> IF i % 2 = 1 THEN "Farmer" ELSE "Woodcutter"]
    /\ life \in [Agents -> StartLives \cup {SellerLife}]
    /\ \A i \in Agents : life[i] = SellerLife => i = 1
    /\ numLive = CohortSizes(role)
    /\ funds = [i \in Agents |-> life[i].startFunds - life[i].produced * Penalty]
    /\ inventory \in [Agents -> UNION {Holdings(r) : r \in StartRoles} \cup {SellerHoldings}]
    /\ \A i \in Agents :
          IF life[i] = SellerLife
          THEN inventory[i] = SellerHoldings
          ELSE inventory[i] \in Holdings(role[i]) /\ inventory[i]["Tools"] = 0
    /\ priceBelief = [i \in Agents |-> [c \in Commodities |->
                        RandomBelief(InitialAveragePrice, 50, 50)]]
    /\ riskAversion = [i \in Agents |-> 1]
    /\ methods = InitialMethods
    /\ prod = [i \in Agents |-> NoProd]
    /\ prodStart = [i \in Agents |-> NoProdStart]
    /\ lastUpdate = [i \in Agents |-> NoUpdate]

Next ==
    \/ \E i \in Agents :
          \/ PerformProduction(i)
          \/ GenerateOffers(i)
          \/ AgentPark(i)
          \/ AgentUpdate(i)
    \/ CollectAsks
    \/ CollectBids
    \/ MatchAll
    \/ RouteAsks
    \/ RouteBids
    \/ DeadCheck

Spec == Init /\ [][Next]_vars

\* the steps of the ticker goroutine
Clearinghouse ==
    \/ CollectAsks
    \/ CollectBids
    \/ MatchAll
    \/ RouteAsks
    \/ RouteBids
    \/ DeadCheck

\* the ticker goroutine can take a step: a tick is under way, or one is to come
TickerRuns == tick < MaxTicks \/ mpc # "idle"

\* Weak fairness of the ticker goroutine, WF_vars(Clearinghouse), with its
\* ENABLED written out: no step of a tick waits for anything, so a step of
\* Clearinghouse is possible exactly when TickerRuns.
TickerFair == []<>(~TickerRuns) \/ []<><<Clearinghouse>>_vars

\* the program in the states of Init in which the first agent is two
\* penalties from insolvency
InitLive == Init /\ life[1].cycles = 3

\* The program with a ticker that runs: a tick that can start does start, and
\* the ticker goroutine, which never blocks, is scheduled again and again.
\* Nothing is assumed of the agents.
SpecLive == InitLive /\ [][Next]_vars /\ TickerFair

\* the draws of rand.Float64() behind the first agent's belief about Wood
FlowRand == {0, 50}

\* The program with new agents only, each holding 2 of what its role works
\* on and no Tools; the first agent's belief about Wood is as any two draws
\* of its constructor made it.
InitFlow ==
    /\ loopVarPerIteration \in BOOLEAN
    /\ valueCall = NoCall
    /\ averagePrice = [c \in Commodities |-> InitialAveragePrice]
    /\ pc = [i \in Agents |-> "produce"]
    /\ askSlice = [i \in Agents |-> <<>>]
    /\ bidSlice = [i \in Agents |-> <<>>]
    /\ MarketAtRest
    /\ role = [i \in Agents |-> IF i % 2 = 1 THEN "Farmer" ELSE "Woodcutter"]
    /\ life = [i \in Agents |-> [NoLife EXCEPT !.startFunds = 10 * Unit]]
    /\ numLive = CohortSizes(role)
    /\ funds = [i \in Agents |-> life[i].startFunds]
    /\ inventory = [i \in Agents |->
                      [c \in {"Tools", Needs(role[i])} |-> IF c = "Tools" THEN 0 ELSE 2]]
    /\ \E rh, rl \in FlowRand :
          priceBelief = [i \in Agents |-> [c \in Commodities |->
                            IF i = 1 /\ c = "Wood"
                            THEN RandomBelief(InitialAveragePrice, rh, rl)
                            ELSE RandomBelief(InitialAveragePrice, 50, 50)]]
    /\ riskAversion = [i \in Agents |-> 1]
    /\ methods = InitialMethods
    /\ prod = [i \in Agents |-> NoProd]
    /\ prodStart = [i \in Agents |-> NoProdStart]
    /\ lastUpdate = [i \in Agents |-> NoUpdate]

\* the steps of the goroutine of agent i
AgentStep(i) ==
    \/ PerformProduction(i)
    \/ GenerateOffers(i)
    \/ AgentPark(i)
    \/ AgentUpdate(i)

\* agentUpdate returns on the results the agent holds
UpdateCanReturn(i) ==
    UpdateBids(UpdateAsks([funds |-> funds[i], inventory |-> inventory[i],
                           priceBelief |-> priceBelief[i], returns |-> TRUE],
                          askSlice[i], averagePrice),
               bidSlice[i], averagePrice).returns

\* the goroutine of agent i can take a step: it is neither waiting at a
\* channel nor inside a loop that does not end
AgentRuns(i) ==
    \/ pc[i] \in {"produce", "offers", "askSent", "bidSent", "gotAsks"}
    \/ pc[i] = "update" /\ UpdateCanReturn(i)

\* Weak fairness of every agent goroutine, WF_vars(AgentStep(i)), with its
\* ENABLED written out: a goroutine that can run is scheduled.
AgentsFair ==
    \A i \in Agents : []<>(~AgentRuns(i)) \/ []<><<AgentStep(i)>>_vars

\* The program with a ticker that runs and a scheduler that runs every
\* goroutine that is not blocked.
SpecFlow == InitFlow /\ [][Next]_vars /\ TickerFair /\ AgentsFair

-----------------------------------------------------------------------------
(* Properties of the matching pass *)

LastTrade == trades[Len(trades)]

\* the matching loop of loop.com has ended
PassOver == loop.com # "none" /\ (mpc = "price" \/ loop.done)

AcceptedAsks(list) == SumSeq([k \in 1..Len(list) |-> askHeap[list[k]].numberAccepted])
AcceptedBids(list) == SumSeq([k \in 1..Len(list) |-> bidHeap[list[k]].numberAccepted])

TradeUnits(t) == Min(t.asksQuantityRemaining, t.bidsQuantityRemaining)

\* C1: when the matching pass of a commodity has ended, the numberAccepted of
\* its ask entries and the numberAccepted of its bid entries have the same
\* sum.  Stated for the builds in which every collected offer is a record of
\* its own.
C1_UnitsConserved ==
    (loopVarPerIteration /\ PassOver) =>
        AcceptedAsks(asksTyped[loop.com]) = AcceptedBids(bidsTyped[loop.com])

\* C2: after a trade between heads of unequal remaining quantity, the larger
\* head is left with numberOffered = numberAccepted = the units traded, the
\* smaller head is fully accepted, and the entry right after the larger head
\* is a new record with the unfilled remainder offered, nothing accepted and
\* the same agent id.  Stated for the builds in which every collected offer
\* is a record of its own.
C2_PartialFillSplit ==
    (loopVarPerIteration /\ trades # <<>>
        /\ LastTrade.asksQuantityRemaining > LastTrade.bidsQuantityRemaining) =>
        LET t == LastTrade
            m == TradeUnits(t)
            ia == loop.asksIndex
        IN  /\ askHeap[t.ask].numberOffered = m
            /\ askHeap[t.ask].numberAccepted = m
            /\ bidHeap[t.bid].numberAccepted = bidHeap[t.bid].numberOffered
            /\ Len(loop.asksCom) > ia
            /\ loop.asksCom[ia + 1] # t.ask
            /\ askHeap[loop.asksCom[ia + 1]].numberOffered = t.asksQuantityRemaining - m
            /\ askHeap[loop.asksCom[ia + 1]].numberAccepted = 0
            /\ askHeap[loop.asksCom[ia + 1]].id = askHeap[t.ask].id

\* C3: after a trade the ask and the bid record the same price, that price is
\* the midpoint of the two prices the heads had when they met, and it lies
\* between the price the ask was submitted with and the price the bid was
\* submitted with.
C3_MidpointClearingPrice ==
    trades # <<>> =>
        LET t == LastTrade
            price == askHeap[t.ask].sellFor
        IN  /\ bidHeap[t.bid].buyFor = price
            /\ 2 * price <= t.sellFor + t.buyFor
            /\ t.sellFor + t.buyFor <= 2 * price + 1
            /\ collected.asks[t.ask].sellFor <= price
            /\ price <= collected.bids[t.bid].buyFor

C3_Witness ==
    /\ trades # <<>>
    /\ LastTrade.sellFor = 1000
    /\ LastTrade.buyFor = 1200
    /\ askHeap[LastTrade.ask].sellFor = 1100
    /\ bidHeap[LastTrade.bid].buyFor = 1100

LowestAsk(heap, list) == heap[list[1]].sellFor
HighestBid(heap, list) == heap[list[1]].buyFor

\* C4: no trade is made between heads with ask price above bid price; and
\* when, as a pass begins, the lowest ask price of the commodity is above its
\* highest bid price, the pass ends with numberAccepted = 0 on every entry of
\* the commodity, no transactions and averagePrice unchanged.
C4_NoTradeAcrossSpread ==
    /\ \A k \in 1..Len(trades) : trades[k].sellFor <= trades[k].buyFor
    /\ (/\ loop.done
        /\ passStart.asksCom # <<>>
        /\ passStart.bidsCom # <<>>
        /\ LowestAsk(passStart.asks, passStart.asksCom)
              > HighestBid(passStart.bids, passStart.bidsCom)) =>
            /\ \A k \in 1..Len(asksTyped[loop.com]) :
                    askHeap[asksTyped[loop.com][k]].numberAccepted = 0
            /\ \A k \in 1..Len(bidsTyped[loop.com]) :
                    bidHeap[bidsTyped[loop.com][k]].numberAccepted = 0
            /\ loop.totalTransactions = 0
            /\ averagePrice[loop.com] = passStart.averagePrice

\* C5: after the pass of a commodity, if the units traded in the pass sum to
\* more than zero, averagePrice is the sum of clearing price times units over
\* the trades divided by the units traded; otherwise averagePrice is what it
\* was before the pass.
C5_PriceIsWeightedMean ==
    loop.done =>
        LET units == SumSeq([k \in 1..Len(trades) |-> TradeUnits(trades[k])])
            value == SumSeq([k \in 1..Len(trades) |->
                        Mid(trades[k].sellFor, trades[k].buyFor) * TradeUnits(trades[k])])
        IN  averagePrice[loop.com] =
                IF units > 0 THEN Div(value, units) ELSE passStart.averagePrice

\* C6: a pass that begins with a single ask and a single bid of the commodity,
\* both offering the same quantity Q at crossing prices, ends with still one
\* ask and one bid, each with numberAccepted = numberOffered = Q.
C6_EqualQuantitiesNoSplit ==
    (/\ PassOver
     /\ Len(passStart.asksCom) = 1
     /\ Len(passStart.bidsCom) = 1
     /\ passStart.asks[passStart.asksCom[1]].numberOffered
            = passStart.bids[passStart.bidsCom[1]].numberOffered
     /\ passStart.asks[passStart.asksCom[1]].sellFor
            <= passStart.bids[passStart.bidsCom[1]].buyFor) =>
        LET Q == passStart.asks[passStart.asksCom[1]].numberOffered
        IN  /\ Len(loop.asksCom) = 1
            /\ Len(loop.bidsCom) = 1
            /\ askHeap[loop.asksCom[1]].numberOffered = Q
            /\ askHeap[loop.asksCom[1]].numberAccepted = Q
            /\ bidHeap[loop.bidsCom[1]].numberOffered = Q
            /\ bidHeap[loop.bidsCom[1]].numberAccepted = Q

\* the same statements on the builds with one record per collected offer
PerIter_C4 == loopVarPerIteration => C4_NoTradeAcrossSpread
PerIter_C5 == loopVarPerIteration => C5_PriceIsWeightedMean
PerIter_C6 == loopVarPerIteration => C6_EqualQuantitiesNoSplit

-----------------------------------------------------------------------------
(* Properties of the belief update *)

\* C7: after agentUpdate has processed a returned ask or bid, the belief
\* interval of the offer's commodity has low < high and low >= 0.
C7_BeliefInterval ==
    \A i \in Agents :
        lastUpdate[i].kind # "none" =>
            LET pr == priceBelief[i][lastUpdate[i].item]
            IN  pr.low < pr.high /\ pr.low >= 0

-----------------------------------------------------------------------------
(* Properties of performProduction *)

ProductionOver(i) == prod[i].step = "done"

\* units of commodity c in a list of commoditySets
Units(sets, c) ==
    SumSeq([k \in 1..Len(sets) |-> IF sets[k].item = c THEN sets[k].quantity ELSE 0])

\* the change of agent i's count of c since its performProduction began
Delta(i, c) == InvGet(inventory[i], c) - InvGet(prodStart[i].inventory, c)

\* agent i's holdings changed as one run of method m changes them
RanExactly(i, m) ==
    /\ funds[i] = prodStart[i].funds
    /\ \A c \in Commodities :
          \E k \in 0..Units(Method(m).catalysts, c) :
              Delta(i, c) = Units(Method(m).outputs, c) - Units(Method(m).inputs, c) - k

\* agent i paid the idle penalty and its holdings did not change
RanNone(i) ==
    /\ funds[i] = prodStart[i].funds - Penalty
    /\ \A c \in Commodities : Delta(i, c) = 0

RoleMethods(r) == {InitialMethods[r][k] : k \in 1..Len(InitialMethods[r])}

\* C8: when a performProduction call has returned, either the agent's
\* holdings changed as exactly one method of its set changes them (inputs
\* removed, outputs added, of each catalyst between 0 and its quantity
\* removed, funds and every other commodity unchanged), or nothing changed
\* but funds, which lost the idle penalty.
C8_OneMethodExactly ==
    \A i \in Agents :
        ProductionOver(i) =>
            \/ RanNone(i)
            \/ \E m \in RoleMethods(role[i]) : RanExactly(i, m)

\* C9: when a performProduction call has returned and some method of the
\* order the agent's sort left was executable with the holdings the call
\* began with, the holdings changed as the first such method of that order
\* changes them.
C9_FirstExecutableRuns ==
    \A i \in Agents :
        ProductionOver(i) =>
            LET rk == prodStart[i].sorted
                E == {k \in 1..Len(rk) : Executable(Method(rk[k]), prodStart[i].inventory)}
            IN  E # {} =>
                    RanExactly(i, rk[CHOOSE k \in E : \A j \in E : k <= j])

\* the same statements when no two agents have the same role
Unshared == \A i, j \in Agents : i # j => role[i] # role[j]
Unshared_C8 == Unshared => C8_OneMethodExactly
Unshared_C9 == Unshared => C9_FirstExecutableRuns

-----------------------------------------------------------------------------
(* Properties of the agent cycle *)

\* agent i has been idle in every production of its life and has had no ask
\* and no bid accepted
IdleSoFar(i) == life[i].idleOnly

\* C10: an agent that finds no executable method in every cycle and has no
\* ask and no bid accepted loses exactly the idle penalty per cycle; it leaves
\* its loop, to send its death notification, at the end of the first cycle in
\* which its funds are 0 or less and not earlier.  Started with 10 at a
\* penalty of 2 it leaves at the end of its fifth cycle, with funds 0.
C10_IdlePenaltyEndsAgent ==
    \A i \in Agents :
        IdleSoFar(i) =>
            /\ funds[i] = life[i].startFunds - life[i].produced * 200
            /\ pc[i] = "sendDead" =>
                  /\ life[i].cycles = life[i].produced
                  /\ funds[i] <= 0
                  /\ funds[i] + 200 > 0
            /\ pc[i] = "produce" => funds[i] > 0
            /\ life[i].startFunds = 1000 =>
                  /\ pc[i] = "sendDead" => life[i].cycles = 5 /\ funds[i] = 0
                  /\ life[i].cycles >= 5 => pc[i] = "sendDead"

C10_Witness ==
    \E i \in Agents :
        /\ IdleSoFar(i)
        /\ life[i].startFunds = 1000
        /\ life[i].cycles = 5
        /\ funds[i] = 0
        /\ pc[i] = "sendDead"

-----------------------------------------------------------------------------
(* Properties of the tick *)

\* the matching loop run from st for at most n iterations
RECURSIVE RunLoopUpTo(_, _)
RunLoopUpTo(st, n) ==
    IF st.brk \/ n = 0 THEN st ELSE RunLoopUpTo(MatchIteration(st), n - 1)

\* the pass over commodity c leaves its loop within as many iterations as
\* the two lists have entries when it begins
PassEnds(bk, c) ==
    Len(bk.at[c]) > 0 /\ Len(bk.bt[c]) > 0 =>
        RunLoopUpTo(PassBegin(bk, c), Len(bk.at[c]) + Len(bk.bt[c])).brk

\* every pass of the matching of book bk in this order of the commodities ends
RECURSIVE PassesEnd(_, _)
PassesEnd(bk, order) ==
    \/ order = <<>>
    \/ /\ PassEnds(bk, Head(order))
       /\ PassesEnd(RunPass(bk, Head(order)), Tail(order))

\* an agent that is not at a channel operation with the clearinghouse: it
\* is computing (slow), or has not yet been taken off its dead channel
AwayFromTheBook(i) == pc[i] \in {"produce", "offers", "update", "sendDead"}

\* an agent blocked on a send or a receive of offers
Blocked(i) == pc[i] \in {"sendAsks", "sendBids", "recvAsks", "recvBids"}

\* C11: the clearinghouse never waits on an agent.  Wherever it is in its
\* tick, its next step can be taken, in whatever positions the agents are
\* (collections, routings and the death check are non-blocking attempts),
\* and every per-commodity matching loop ends within a number of iterations
\* bounded by the lengths of its two lists, so that a tick once started
\* runs to its end.
C11_TickNeverWaits ==
    /\ mpc = "collectBids" => ENABLED CollectBids
    /\ mpc = "match" =>
          LET orders == Arrangements({c \in Commodities :
                                        Len(asksTyped[c]) > 0 /\ Len(bidsTyped[c]) > 0})
          IN  /\ orders # {}
              /\ \A order \in orders :
                PassesEnd([ah |-> askHeap, bh |-> bidHeap, at |-> asksTyped,
                           bt |-> bidsTyped, price |-> averagePrice], order)
    /\ mpc = "routeAsks" => ENABLED RouteAsks
    /\ mpc = "routeBids" => ENABLED RouteBids
    /\ mpc = "dead" => ENABLED DeadCheck
    /\ mpc \in {"idle", "collectBids", "match", "routeAsks", "routeBids", "dead"}

\* a tick has run to its end while one agent was blocked on a channel and
\* another was computing or dead
C11_Witness ==
    /\ mpc = "idle"
    /\ tick >= 1
    /\ \E i, j \in Agents : Blocked(i) /\ AwayFromTheBook(j) /\ life[j].asksIn = life[j].cycles

-----------------------------------------------------------------------------
(* Properties of the rendezvous of agents and clearinghouse *)

\* the cycle agent i is in, counted from 1: the cycles it has ended and, while
\* it is not dead, the one it is in
CurrentCycle(i) == IF pc[i] = "sendDead" THEN life[i].cycles ELSE life[i].cycles + 1

\* the batches agent i has handed over in all: those of the cycles it has
\* ended and the one of this cycle when it is past the send
Handed(i, before) ==
    IF pc[i] \in before \/ pc[i] = "sendDead" THEN life[i].cycles ELSE life[i].cycles + 1

\* C12: an agent starts agentUpdate only after it has received an ask-result
\* batch and a bid-result batch in this cycle; it generates the offers of a
\* cycle only when the clearinghouse has received the ask batch and the bid
\* batch of every cycle before; and the clearinghouse has received every
\* batch the agent has sent exactly once: as many as the agent handed over.
C12_AgentRendezvous ==
    \A i \in Agents :
        /\ pc[i] = "update" =>
              /\ life[i].asksOut = CurrentCycle(i)
              /\ life[i].bidsOut = CurrentCycle(i)
        /\ pc[i] \in {"produce", "offers"} =>
              /\ life[i].asksIn = life[i].cycles
              /\ life[i].bidsIn = life[i].cycles
        /\ life[i].asksIn = Handed(i, {"produce", "offers", "sendAsks"})
        /\ life[i].bidsIn = Handed(i, {"produce", "offers", "sendAsks", "askSent", "sendBids"})

\* an agent is about to settle a cycle whose two batches were collected and
\* whose two result batches it has received
C12_Witness ==
    \E i \in Agents :
        /\ pc[i] = "update"
        /\ life[i].askTick >= 1 /\ life[i].bidTick >= 1
        /\ life[i].askResTick >= 1 /\ life[i].bidResTick >= 1
        /\ life[i].asksIn = life[i].cycles + 1
        /\ life[i].bidsOut = life[i].cycles + 1

\* C13: an agent takes part in exactly one round per cycle.  When it settles,
\* its ask batch and its bid batch of the cycle were collected in the same
\* tick, and the ask results and the bid results it holds were routed in
\* that tick, so that they are the outcome of the matching of those batches.
C13_OneRoundPerCycle ==
    \A i \in Agents :
        pc[i] = "update" =>
            /\ life[i].askTick = life[i].bidTick
            /\ life[i].askResTick = life[i].askTick
            /\ life[i].bidResTick = life[i].bidTick

-----------------------------------------------------------------------------
(* Properties of the shared state *)

\* C14: averagePrice has a single writer.  A step that changes the
\* averagePrice of any commodity is the clearinghouse's matching and price
\* update of a tick, and it leaves every agent where and as it was: no step
\* of an agent (production, offers, settle, belief update) changes a price.
C14_PriceSingleWriter ==
    [][averagePrice' # averagePrice =>
          /\ mpc = "match"
          /\ mpc' = "routeAsks"
          /\ pc' = pc
          /\ funds' = funds
          /\ inventory' = inventory
          /\ priceBelief' = priceBelief]_vars

\* the clearinghouse has written a new price while agents had run their steps
C14_Witness ==
    /\ \E c \in Commodities : averagePrice[c] # InitialAveragePrice
    /\ \E i \in Agents : life[i].produced > life[i].cycles

\* C15: a role's ProductionSet is immutable after world setup.  No step
\* changes the list of methods of any role, neither its content nor its
\* order, so that no agent writes what another agent of its role reads and
\* no list ever holds a method twice or misses one.
C15_ProductionSetImmutable ==
    [][\A r \in Roles : methods'[r] = methods[r]]_vars

-----------------------------------------------------------------------------
(* Properties of the population *)

\* the role that makes each commodity
Producer ==
    [c \in Commodities |->
        CASE c = "Food" -> "Farmer"
          [] c = "Ore" -> "Miner"
          [] c = "Metal" -> "Refiner"
          [] c = "Wood" -> "Woodcutter"
          [] c = "Tools" -> "Blacksmith"]

\* the agents whose death notification the death check of this state receives
Notifying == {i \in Agents : pc[i] = "sendDead"}

\* C16: in the death check of a tick, every agent whose death notification
\* is received is replaced in its own slot by one new agent, which starts at
\* the top of its loop and whose role is the producer of a commodity whose
\* averagePrice is maximal over the registry; the live count of the dead
\* agent's role goes down by one and that of the new agent's role up by
\* one; the other agents and counts are left as they are.
C16_PopulationMaintenance ==
    [][mpc = "dead" /\ mpc' = "idle" =>
          /\ \A i \in Notifying :
                /\ pc'[i] = "produce"
                /\ life'[i].produced = 0
                /\ \E c \in Commodities :
                      /\ \A d \in Commodities : averagePrice[d] <= averagePrice[c]
                      /\ role'[i] = Producer[c]
          /\ \A i \in Agents \ Notifying :
                /\ role'[i] = role[i]
                /\ pc'[i] = pc[i]
                /\ life'[i] = life[i]
          /\ \A r \in Roles :
                numLive'[r] = numLive[r] - Cardinality({i \in Notifying : role[i] = r})
                                         + Cardinality({i \in Notifying : role'[i] = r})]_vars

\* a death check has replaced a Woodcutter by a Farmer: one Woodcutter less
\* and one Farmer more are counted than were started
C16_Witness ==
    /\ mpc = "idle"
    /\ tick >= 1
    /\ \E i \in Agents :
          /\ i % 2 = 0
          /\ role[i] = "Farmer"
          /\ life[i].startFunds # 10 * Unit
    /\ numLive["Woodcutter"] < Cardinality({i \in Agents : i % 2 = 0})
    /\ numLive["Farmer"] > Cardinality({i \in Agents : i % 2 = 1})

\* the agent in slot i was started by a death check and has not yet run
Replacement(i) == pc[i] = "produce" /\ life[i].produced = 0

\* C17: every agent found insolvent at its solvency check is detected and
\* replaced.  While the ticker runs, an agent that waits to send its death
\* notification has it received by a death check, after which a new agent
\* runs in its slot; and the ticks keep coming, up to the last of the model.
C17_DeadAgentsReplaced ==
    /\ \A i \in Agents : (pc[i] = "sendDead" /\ TickerRuns) ~> Replacement(i)
    /\ <>(tick = MaxTicks /\ mpc = "idle")

\* the last tick of the model has ended, and an agent that was insolvent has
\* been replaced: the agent in its slot holds the funds of a new agent and
\* has not yet run
C17_Witness ==
    /\ tick = MaxTicks
    /\ mpc = "idle"
    /\ \E i \in Agents :
          /\ Replacement(i)
          /\ funds[i] >= 50 * Unit
          /\ life[i].startFunds = funds[i]

-----------------------------------------------------------------------------
(* Properties of the book *)

\* the entries of a book that carry the index of agent i
EntriesOf(heap, typed, i) == Len(ResultsFor(heap, typed, i, 1))

\* the ask book, and the bid book, have been collected in this tick and the
\* tick has not ended
AsksCollected == mpc \in {"collectBids", "match", "routeAsks", "routeBids", "dead"}
BidsCollected == mpc \in {"match", "routeAsks", "routeBids", "dead"}

\* C18: no offer persists across rounds.  Every collection starts from empty
\* lists: every entry of the ask book (bid book) of a tick carries the index
\* of an agent whose ask batch (bid batch) was received in this tick, and
\* when a collection ends the book holds as many entries of an agent as the
\* batch received from it in this tick has offers, none for the others.
C18_NoOfferPersists ==
    \A i \in Agents :
        /\ AsksCollected /\ life[i].askTick # tick => EntriesOf(askHeap, asksTyped, i) = 0
        /\ BidsCollected /\ life[i].bidTick # tick => EntriesOf(bidHeap, bidsTyped, i) = 0
        /\ mpc = "collectBids" /\ life[i].askTick = tick =>
              EntriesOf(askHeap, asksTyped, i) = Len(askSlice[i])
        /\ mpc = "match" /\ life[i].bidTick = tick =>
              EntriesOf(bidHeap, bidsTyped, i) = Len(bidSlice[i])

\* in the second tick the bid book holds the bids of one agent and none of
\* another, whose bids were in the book of the first tick
C18_Witness ==
    /\ tick = 2
    /\ BidsCollected
    /\ \E i, j \in Agents :
          /\ life[i].bidTick = 2
          /\ EntriesOf(bidHeap, bidsTyped, i) > 0
          /\ life[j].bidTick = 1
          /\ Len(bidSlice[j]) > 0
          /\ EntriesOf(bidHeap, bidsTyped, j) = 0

\* the offers for commodity c in a batch
OffersFor(batch, c) == Len(SelectSeq(batch, LAMBDA o : o.item = c))

\* the result batch is that of the batch collected: every entry carries the
\* index it was built for, and for every commodity the result holds at
\* least the offers the batch held for it (more when offers were split),
\* none when the batch held none
ResultOf(result, batch, i) ==
    /\ \A k \in 1..Len(result) : result[k].id = i
    /\ \A c \in Commodities :
          /\ OffersFor(result, c) >= OffersFor(batch, c)
          /\ OffersFor(batch, c) = 0 => OffersFor(result, c) = 0

\* when the results are routed, the batch built for every agent whose
\* offers were collected in this tick is the result of its batch
RoutedToOriginator ==
    \A i \in Agents :
        /\ mpc = "routeAsks" /\ life[i].askTick = tick =>
              ResultOf(ResultsFor(askHeap, asksTyped, i, 1), askSlice[i], i)
        /\ mpc = "routeBids" /\ life[i].bidTick = tick =>
              ResultOf(ResultsFor(bidHeap, bidsTyped, i, 1), bidSlice[i], i)

\* C19: result routing.  At the end of a tick the result batch built for an
\* agent index holds every offer collected from that agent in this tick,
\* with the entries split off them, and no offer of another agent; every
\* offer collected is in the result batch of its originator.
C19_ResultsToOriginator == RoutedToOriginator

\* the same, in a build with one range variable per iteration
PerIter_C19 == loopVarPerIteration => RoutedToOriginator

\* the offers of a batch for commodity c, tagged with the index of their agent
Tagged(batch, c, i) ==
    LET own == SelectSeq(batch, LAMBDA o : o.item = c)
    IN  [k \in 1..Len(own) |-> [own[k] EXCEPT !.id = i]]

\* the book holds the batch of agent i bucketed: the entries of i in the
\* list of every commodity are the offers of the batch for that commodity
Bucketed(heap, typed, batch, i) ==
    \A c \in Commodities : Matching(heap, typed[c], i) = Tagged(batch, c, i)

\* when a collection has ended, the book holds the batch of every agent it
\* received from, bucketed
CollectedBucketed ==
    \A i \in Agents :
        /\ mpc = "collectBids" /\ life[i].askTick = tick =>
              Bucketed(askHeap, asksTyped, askSlice[i], i)
        /\ mpc = "match" /\ life[i].bidTick = tick =>
              Bucketed(bidHeap, bidsTyped, bidSlice[i], i)

\* C20: bucketing.  After collection each commodity's ask list (bid list)
\* holds exactly the collected asks (bids) for that commodity: every offer
\* of an agent's batch is there once, in the list of its own commodity, with
\* its own numberOffered and price, also when the batch holds offers for
\* several commodities.
C20_Bucketing == CollectedBucketed

\* the same, in a build with one range variable per iteration
PerIter_C20 == loopVarPerIteration => CollectedBucketed

-----------------------------------------------------------------------------
(* Properties of the order of matching *)

\* the units trades 1..n of the pass gave to ask record p, to bid record p
AskUnits(p, n) ==
    SumSeq([k \in 1..n |-> IF trades[k].ask = p THEN TradeUnits(trades[k]) ELSE 0])
BidUnits(p, n) ==
    SumSeq([k \in 1..n |-> IF trades[k].bid = p THEN TradeUnits(trades[k]) ELSE 0])

\* what an offer had left to fill when the pass began
Open(o) == o.numberOffered - o.numberAccepted

\* every trade of the pass that gave units went to an ask with no cheaper
\* ask of the list still open, and to a bid with no dearer bid still open
PricePriority ==
    \A n \in 1..Len(trades) :
        TradeUnits(trades[n]) > 0 =>
            /\ \A k \in 1..Len(passStart.asksCom) :
                  LET q == passStart.asksCom[k]
                  IN  passStart.asks[q].sellFor < passStart.asks[trades[n].ask].sellFor =>
                          AskUnits(q, n) = Open(passStart.asks[q])
            /\ \A k \in 1..Len(passStart.bidsCom) :
                  LET q == passStart.bidsCom[k]
                  IN  passStart.bids[q].buyFor > passStart.bids[trades[n].bid].buyFor =>
                          BidUnits(q, n) = Open(passStart.bids[q])

\* C21: price priority.  Within a commodity an ask receives accepted units in
\* a round only if every ask collected for that commodity at a strictly lower
\* price has been filled in full, and a bid receives accepted units only if
\* every collected bid at a strictly higher price has been filled in full.
C21_PricePriority == PricePriority

\* a second trade of a pass gave units to the dearer of two asks and to the
\* cheaper of two bids
C21_Witness ==
    /\ Len(trades) = 2
    /\ TradeUnits(trades[2]) > 0
    /\ passStart.asks[trades[1].ask].sellFor < passStart.asks[trades[2].ask].sellFor
    /\ passStart.bids[trades[1].bid].buyFor > passStart.bids[trades[2].bid].buyFor

-----------------------------------------------------------------------------
(* Properties of the ranking of methods *)

\* the market-value score of method m under the prices of the day
Score(m) == getMarketValue(Method(m), averagePrice)

\* the methods of agent i's set it could run with what it held when its
\* performProduction began
ExecutableAtStart(i) ==
    {m \in RoleMethods(role[i]) : Executable(Method(m), prodStart[i].inventory)}

\* the method agent i's call found executable and ran is, of those it could
\* run, one of the highest score
HighestScoreRan(i) ==
    ExecutableAtStart(i) # {} =>
        /\ prodStart[i].checked \in ExecutableAtStart(i)
        /\ \A m \in ExecutableAtStart(i) : Score(prodStart[i].checked) >= Score(m)

\* C22: performProduction considers the agent's methods in descending order
\* of market-value score, highest first: when several methods are executable,
\* the one with the highest score is the one that executes.
C22_HighestScoreRuns ==
    \A i \in Agents : ProductionOver(i) => HighestScoreRan(i)

\* the same when no two agents have the same role
Unshared_C22 == Unshared => C22_HighestScoreRuns

-----------------------------------------------------------------------------
(* Properties of offer generation *)

\* the commodities some method of role r's production set requires, as
\* input or as catalyst
RequiredBySet(r) == UNION {RequiredItems(Method(m)) : m \in RoleMethods(r)}

\* the inventory entries of agent i no method of its set requires
Sellable(i) == DOMAIN inventory[i] \ RequiredBySet(role[i])

\* p is (low + high) / 2 of belief pr
IsMidpoint(p, pr) == 2 * p <= pr.low + pr.high /\ pr.low + pr.high <= 2 * p + 1

\* agent i, back from generateAsks and generateBids, has its offers to send
OffersMade(i) == pc[i] = "sendAsks"

\* askSlice holds one ask for each sellable entry, offering all of it at the
\* midpoint of the belief, and nothing else
AsksAsSpecified(i) ==
    /\ \A c \in Sellable(i) :
          Cardinality({k \in 1..Len(askSlice[i]) : askSlice[i][k].item = c}) = 1
    /\ \A k \in 1..Len(askSlice[i]) :
          LET o == askSlice[i][k]
          IN  /\ o.item \in Sellable(i)
              /\ o.numberOffered = inventory[i][o.item]
              /\ o.numberAccepted = 0
              /\ IsMidpoint(o.sellFor, priceBelief[i][o.item])

\* C23: generateAsks emits exactly one ask for each inventory entry whose
\* commodity no method of the agent's production set requires (as input or
\* catalyst), with numberOffered the full held count and sellFor the
\* midpoint (low + high) / 2 of the agent's belief for the commodity, and
\* emits no ask for a commodity that some method of the set requires.
C23_AsksForUnrequired ==
    \A i \in Agents : OffersMade(i) => AsksAsSpecified(i)

\* the same when no two agents have the same role
Unshared_C23 == Unshared => C23_AsksForUnrequired

\* "cyclesToCover := 2"
CyclesToCover == 2

\* the prices agent i believes in: the midpoint of each belief interval
BeliefPrices(i) ==
    [c \in Commodities |-> Div(priceBelief[i][c].high + priceBelief[i][c].low, 2)]

\* the belief-based production value of method m for agent i
ProductionValue(i, m) == getMarketValue(Method(m), BeliefPrices(i))

\* the choices of the top riskAversion methods of agent i's set in the ranking
\* by production value (more than one choice when values tie)
TopMethods(i) ==
    {T \in SUBSET RoleMethods(role[i]) :
        /\ Cardinality(T) = Min(riskAversion[i], Cardinality(RoleMethods(role[i])))
        /\ \A m \in T : \A n \in RoleMethods(role[i]) \ T :
              ProductionValue(i, m) >= ProductionValue(i, n)}

\* what the methods T ask of commodity c for CyclesToCover cycles, less what
\* agent i holds
Shortfall(i, T, c) ==
    LET all == InitialMethods[role[i]]
    IN  CyclesToCover * SumSeq([k \in 1..Len(all) |->
                IF all[k] \in T THEN Requirement(Method(all[k]), c) ELSE 0])
            - InvGet(inventory[i], c)

\* bidSlice holds one bid for each commodity the methods T require, for the
\* shortfall, at the midpoint of the belief, and nothing else
BidsCover(i, T) ==
    LET required == UNION {RequiredItems(Method(m)) : m \in T}
    IN  /\ \A c \in required :
              Cardinality({k \in 1..Len(bidSlice[i]) : bidSlice[i][k].item = c}) = 1
        /\ \A k \in 1..Len(bidSlice[i]) :
              LET o == bidSlice[i][k]
              IN  /\ o.item \in required
                  /\ o.numberOffered = Shortfall(i, T, o.item)
                  /\ IsMidpoint(o.buyFor, priceBelief[i][o.item])

\* C24: generateBids sums the input and catalyst requirements of only the top
\* riskAversion methods in the ranking by belief-based production value, each
\* counted for cyclesToCover = 2 production cycles and merged additively per
\* commodity, subtracts the quantity held in inventory, and emits one bid per
\* required commodity with numberOffered that difference and buyFor the
\* midpoint of the agent's belief interval.
C24_BidsForTopMethods ==
    \A i \in Agents :
        OffersMade(i) => \E T \in TopMethods(i) : BidsCover(i, T)

-----------------------------------------------------------------------------
(* Properties of the belief steps *)

\* the bounds u.high and u.low of the belief an update began with, each moved
\* by sign times f of its own distance to the average price
Stepped(u, sign, f) ==
    [high |-> u.high + sign * Percent(Abs(u.high - u.itemAvg), f),
     low |-> u.low + sign * Percent(Abs(u.low - u.itemAvg), f)]

\* the midpoint of the belief an update began with
MidOf(u) == Div(u.high + u.low, 2)

\* the belief stored is the stepped belief e, as far as the two corrections
\* left it alone: high is never corrected, low is corrected only when it is
\* not below high or is below 0
StoredAsStepped(pr, e) ==
    /\ pr.high = e.high
    /\ (e.low < e.high /\ e.low >= 0) => pr.low = e.low

\* the step of an ask update: up when accepted, down when not
AskStep(u) ==
    IF u.numberAccepted > 0
    THEN Stepped(u, 1, IF MidOf(u) <= u.itemAvg THEN 20 ELSE 1)
    ELSE Stepped(u, -1, IF MidOf(u) >= u.itemAvg THEN 20 ELSE 1)

\* C25: belief update for a returned ask, before the degenerate-interval and
\* floor corrections.  If numberAccepted > 0, low and high each increase by
\* |bound - averagePrice| x f, f = 0.2 when the belief midpoint is <=
\* averagePrice and 0.01 otherwise; if numberAccepted = 0, low and high each
\* decrease by |bound - averagePrice| x f, f = 0.2 when the midpoint is >=
\* averagePrice and 0.01 otherwise; the step is computed for low and for high
\* independently.
C25_AskBeliefStep ==
    \A i \in Agents :
        lastUpdate[i].kind = "ask" =>
            StoredAsStepped(priceBelief[i][lastUpdate[i].item], AskStep(lastUpdate[i]))

\* an accepted ask of an agent whose midpoint was above the average price
\* raised both bounds by their own small steps, which differ
C25_Witness ==
    \E i \in Agents :
        LET u == lastUpdate[i]
            pr == priceBelief[i][u.item]
        IN  /\ u.kind = "ask"
            /\ u.numberAccepted > 0
            /\ MidOf(u) > u.itemAvg
            /\ pr.high > u.high
            /\ pr.low > u.low
            /\ pr.high - u.high # pr.low - u.low

\* the step of a bid update: down when accepted, up when not
BidStep(u) ==
    IF u.numberAccepted > 0
    THEN Stepped(u, -1, IF MidOf(u) >= u.itemAvg THEN 20 ELSE 1)
    ELSE Stepped(u, 1, IF MidOf(u) <= u.itemAvg THEN 20 ELSE 1)

\* C26: belief update for a returned bid, before the degenerate-interval and
\* floor corrections.  If numberAccepted > 0, low and high each decrease by
\* |bound - averagePrice| x f, f = 0.2 when the belief midpoint is >=
\* averagePrice and 0.01 otherwise; if numberAccepted = 0, low and high each
\* increase by |bound - averagePrice| x f, f = 0.2 when the midpoint is <=
\* averagePrice and 0.01 otherwise.
C26_BidBeliefStep ==
    \A i \in Agents :
        lastUpdate[i].kind = "bid" =>
            StoredAsStepped(priceBelief[i][lastUpdate[i].item], BidStep(lastUpdate[i]))

\* an accepted bid of an agent whose midpoint was below the average price
\* lowered both bounds by their own small steps
C26_Witness ==
    \E i \in Agents :
        LET u == lastUpdate[i]
            pr == priceBelief[i][u.item]
        IN  /\ u.kind = "bid"
            /\ u.numberAccepted > 0
            /\ MidOf(u) < u.itemAvg
            /\ pr.high < u.high
            /\ pr.low < u.low
            /\ pr.low = u.low - Percent(Abs(u.low - u.itemAvg), 1)

\* agentUpdate, called for a returned ask or bid of commodity c with
\* numberAccepted n while the average price is itemAvg, leaves its loops
UpdateReturns(i, c, n, itemAvg) ==
    /\ AskBelief(priceBelief[i][c], itemAvg, n).returns
    /\ BidBelief(priceBelief[i][c], itemAvg, n).returns

\* C27: the degenerate-interval correction terminates.  Whenever low >= high
\* holds after an adjustment, the loop that repeatedly lowers low by
\* stepFraction x |low - averagePrice| ends after finitely many iterations
\* with low < high, for every reachable belief and averagePrice, the case
\* low = averagePrice included, so agentUpdate always returns.
C27_InvertTerminates ==
    \A i \in Agents, c \in Commodities, n \in {0, 2}, itemAvg \in PriceGrid :
        UpdateReturns(i, c, n, itemAvg)

-----------------------------------------------------------------------------
(* Properties of the idle cycle and of the end of the loop *)

\* agent i can run no method of its production set with what it holds
NoneExecutable(i) ==
    \A m \in RoleMethods(role[i]) : ~Executable(Method(m), inventory[i])

\* the step is a performProduction of agent i that found nothing to run
IdleProduction(i) == pc[i] = "produce" /\ pc'[i] # "produce" /\ NoneExecutable(i)

\* agent i goes from performProduction to its offers, from its offers to the
\* send of its asks, and from there on only when the asks were received
GoesOnToSubmit(i) ==
    /\ pc[i] = "produce" /\ pc'[i] # "produce" => pc'[i] = "offers"
    /\ pc[i] = "offers" =>
          /\ generateAsks(methods[role[i]], inventory[i], priceBelief[i]) # {}
          /\ generateBids(methods[role[i]], inventory[i], priceBelief[i],
                           riskAversion[i]) # {}
          /\ pc'[i] \in {"offers", "sendAsks"}
    /\ pc[i] = "sendAsks" => pc'[i] \in {"sendAsks", "askSent"}
    /\ pc[i] = "askSent" => pc'[i] \in {"askSent", "sendBids"}
    /\ pc[i] = "sendBids" => pc'[i] \in {"sendBids", "bidSent"}

\* C28: if no method of the agent's production set is executable in a cycle,
\* performProduction deducts exactly the set's idle penalty from funds (funds
\* may become zero or negative), leaves the whole inventory unchanged, and the
\* agent still generates and submits its offers in that cycle rather than
\* stopping.
C28_IdlePenaltyOnly ==
    [][\A i \in Agents :
          /\ IdleProduction(i) =>
                /\ funds'[i] = funds[i] - 200
                /\ inventory'[i] = inventory[i]
          /\ GoesOnToSubmit(i)]_vars

\* an agent the penalty left with no funds has had its asks and its bids of
\* that cycle received
C28_Witness ==
    \E i \in Agents :
        /\ life[i].idleOnly
        /\ funds[i] <= 0
        /\ pc[i] = "bidSent"
        /\ life[i].bidsIn = life[i].produced

\* the step is the solvency check of agent i, at the end of its settlement
SolvencyCheck(i) == pc[i] = "update" /\ pc'[i] # "update"

\* agent i has left its loop and its death notification is not yet received
Leaving(i) == pc[i] = "sendDead"

\* the step leaves everything of agent i as it is
AgentRests(i) ==
    /\ pc'[i] = pc[i]
    /\ funds'[i] = funds[i]
    /\ inventory'[i] = inventory[i]
    /\ priceBelief'[i] = priceBelief[i]
    /\ askSlice'[i] = askSlice[i]
    /\ bidSlice'[i] = bidSlice[i]
    /\ life'[i] = life[i]

\* the step is the clearinghouse's receive of agent i's death notification:
\* the notification is gone and the slot holds a new agent, at the top of
\* its loop
NotificationReceived(i) ==
    /\ mpc = "dead"
    /\ mpc' = "idle"
    /\ pc'[i] = "produce"
    /\ life'[i].cycles = 0
    /\ life'[i].produced = 0
    /\ numLive'[role'[i]] > 0

\* C29: an agent leaves its loop exactly when funds <= 0 at the solvency
\* check that follows settlement: funds <= 0 reached earlier in the cycle
\* (after the idle penalty) does not stop it, and it continues if settlement
\* brings funds back above 0.  After leaving the loop it sends exactly one
\* death notification carrying its final state and performs no further
\* production, offer or update step; an agent with funds > 0 at the check
\* never sends a death notification.
C29_LeavesAtSolvencyCheck ==
    [][\A i \in Agents :
          /\ SolvencyCheck(i) =>
                IF funds'[i] <= 0 THEN pc'[i] = "sendDead" ELSE pc'[i] = "produce"
          /\ (pc'[i] = "sendDead" /\ ~Leaving(i)) => SolvencyCheck(i)
          /\ Leaving(i) => AgentRests(i) \/ NotificationReceived(i)]_vars

\* an agent the idle penalty had left without funds was paid for its Food in
\* the same cycle and is at the top of its loop again
C29_Witness ==
    \E i \in Agents :
        /\ life[i].cycles = SellerLife.cycles + 1
        /\ life[i].produced = SellerLife.produced + 1
        /\ InvGet(inventory[i], "Food") < SellerHoldings["Food"]
        /\ funds[i] > 0
        /\ pc[i] = "produce"

\* what the returned asks pay: accepted units times the returned sellFor
RECURSIVE AskProceeds(_)
AskProceeds(slice) ==
    IF slice = <<>> THEN 0
    ELSE (IF Head(slice).numberAccepted > 0
          THEN Head(slice).numberAccepted * Head(slice).sellFor ELSE 0)
         + AskProceeds(Tail(slice))

\* what the returned bids cost: accepted units times the returned buyFor
RECURSIVE BidCost(_)
BidCost(slice) ==
    IF slice = <<>> THEN 0
    ELSE (IF Head(slice).numberAccepted > 0
          THEN Head(slice).numberAccepted * Head(slice).buyFor ELSE 0)
         + BidCost(Tail(slice))

\* the accepted units of commodity c in a returned batch
RECURSIVE UnitsAccepted(_, _)
UnitsAccepted(slice, c) ==
    IF slice = <<>> THEN 0
    ELSE (IF Head(slice).item = c /\ Head(slice).numberAccepted > 0
          THEN Head(slice).numberAccepted ELSE 0)
         + UnitsAccepted(Tail(slice), c)

\* the step is agent i's settlement of the batches it received
Settles(i) == pc[i] = "update" /\ pc'[i] # "update"

\* C30: settlement: a returned ask with numberAccepted = n > 0 raises the
\* agent's funds by n times the returned sellFor and lowers its inventory of
\* that commodity by n; a returned bid with n > 0 lowers funds by n times the
\* returned buyFor and raises inventory by n; a returned offer with
\* numberAccepted = 0 changes neither, and an empty result batch changes no
\* agent state at all.
C30_Settlement ==
    [][\A i \in Agents : Settles(i) =>
          /\ funds'[i] = funds[i] + AskProceeds(askSlice[i]) - BidCost(bidSlice[i])
          /\ \A c \in Commodities :
                InvGet(inventory'[i], c) =
                    InvGet(inventory[i], c) - UnitsAccepted(askSlice[i], c)
                                            + UnitsAccepted(bidSlice[i], c)
          /\ (askSlice[i] = <<>> /\ bidSlice[i] = <<>>) =>
                /\ inventory'[i] = inventory[i]
                /\ priceBelief'[i] = priceBelief[i]
                /\ riskAversion'[i] = riskAversion[i]
                /\ role'[i] = role[i]]_vars

\* one agent has settled an ask of which units were accepted, and one has
\* settled a bid of which units were accepted
C30_Witness ==
    \E i, j \in Agents :
        /\ pc[i] = "produce" /\ life[i].cycles > 0
        /\ \E k \in 1..Len(askSlice[i]) : askSlice[i][k].numberAccepted > 0
        /\ pc[j] = "produce" /\ life[j].cycles > 0
        /\ \E k \in 1..Len(bidSlice[j]) : bidSlice[j][k].numberAccepted > 0

-----------------------------------------------------------------------------
(* Properties of the production value *)

\* the last call asked for a production number outside the agent's methods
OutOfBounds ==
    /\ valueCall.outcome # "none"
    /\ \/ valueCall.productionNumber < 0
       \/ valueCall.productionNumber >= Len(methods[role[valueCall.agent]])

\* the production values the methods of the agents have in this state
LegitimateValues ==
    UNION {{getAverageProductionValue(methods[role[i]], priceBelief[i], k - 1).productionValue :
                k \in 1..Len(methods[role[i]])} : i \in Agents}

\* C31: requesting the production value of a method index outside the
\* recipe's bounds surfaces as an explicit error outcome, distinguishable
\* from every legitimate production value; it is never returned as an
\* ordinary number that a ranking could use.
C31_OutOfBoundsIsError == OutOfBounds => valueCall.outcome = "panic"

\* the number returned for a production number out of bounds is at least
\* not the value of a method
Sentinel_C31 ==
    (OutOfBounds /\ valueCall.outcome = "return") =>
        valueCall.productionValue \notin LegitimateValues

-----------------------------------------------------------------------------
(* Properties of the constructors *)

\* agent i is as its constructor returned it
JustBuilt(i) == pc[i] = "produce" /\ life[i].produced = 0 /\ life[i].cycles = 0

\* the interval straddles the price: 0 < low <= price <= high and low < high
Straddles(pr, price) ==
    /\ 0 < pr.low
    /\ pr.low <= price
    /\ price <= pr.high
    /\ pr.low < pr.high

\* C32: every agent built by a constructor, at startup or as a replacement,
\* starts with funds in [50, 100), riskAversion in 1..4 and, for every
\* registered commodity with averagePrice > 0, a belief interval that
\* straddles the average price with 0 < low <= averagePrice <= high and
\* low < high.
C32_BuiltAgent ==
    \A i \in Agents : JustBuilt(i) =>
        /\ 50 * Unit <= funds[i] /\ funds[i] < 100 * Unit
        /\ riskAversion[i] \in 1..4
        /\ \A c \in Commodities :
              averagePrice[c] > 0 => Straddles(priceBelief[i][c], averagePrice[c])

\* what holds of a built agent's beliefs: low = high is possible
WeaklyStraddles_C32 ==
    \A i \in Agents : JustBuilt(i) =>
        /\ 50 * Unit <= funds[i] /\ funds[i] < 100 * Unit
        /\ riskAversion[i] \in 1..4
        /\ \A c \in Commodities :
              averagePrice[c] > 0 =>
                /\ 0 < priceBelief[i][c].low
                /\ priceBelief[i][c].low <= averagePrice[c]
                /\ averagePrice[c] <= priceBelief[i][c].high

-----------------------------------------------------------------------------
(* Properties of the split *)

\* how often pointer p is in a list
Occurrences(list, p) == Cardinality({k \in 1..Len(list) : list[k] = p})

\* the trades of the pass that split the ask, and those that split the bid
AskSplits == {k \in 1..Len(trades) :
                trades[k].asksQuantityRemaining > trades[k].bidsQuantityRemaining}
BidSplits == {k \in 1..Len(trades) :
                trades[k].asksQuantityRemaining < trades[k].bidsQuantityRemaining}

\* list holds every entry of start once, and one more entry for each split
KeepsAndAdds(list, start, splits) ==
    /\ \A k \in 1..Len(start) : Occurrences(list, start[k]) = Occurrences(start, start[k])
    /\ Len(list) = Len(start) + Cardinality(splits)

\* the entry after position k of list is another record than the one at k
ResidualDistinct(list, p) ==
    \A k \in 1..Len(list) :
        list[k] = p => (k < Len(list) /\ list[k + 1] # p)

\* C33: splitting an offer during matching does not remove, overwrite or
\* duplicate any other offer: after a matching pass the commodity's list
\* holds every collected offer exactly once plus the residual entries the
\* splits created, the residual is a record distinct from the matched
\* portion, and the list that is routed back to agents is the list the
\* matching pass produced.
C33_SplitKeepsOffers ==
    PassOver =>
        /\ KeepsAndAdds(loop.asksCom, passStart.asksCom, AskSplits)
        /\ KeepsAndAdds(loop.bidsCom, passStart.bidsCom, BidSplits)
        /\ \A k \in AskSplits : ResidualDistinct(loop.asksCom, trades[k].ask)
        /\ \A k \in BidSplits : ResidualDistinct(loop.bidsCom, trades[k].bid)
        /\ asksTyped[loop.com] = loop.asksCom
        /\ bidsTyped[loop.com] = loop.bidsCom

\* the same statement on the builds with one record per collected offer
PerIter_C33 == loopVarPerIteration => C33_SplitKeepsOffers

\* the parts of the statement, each on the builds with one record per
\* collected offer
ListsKept_C33 ==
    (loopVarPerIteration /\ PassOver) =>
        /\ \A k \in 1..Len(passStart.asksCom) :
              Occurrences(loop.asksCom, passStart.asksCom[k]) >= 1
        /\ \A k \in 1..Len(passStart.bidsCom) :
              Occurrences(loop.bidsCom, passStart.bidsCom[k]) >= 1
Routed_C33 ==
    (loopVarPerIteration /\ PassOver) =>
        /\ asksTyped[loop.com] = loop.asksCom
        /\ bidsTyped[loop.com] = loop.bidsCom

-----------------------------------------------------------------------------
(* Properties of the accepted quantities *)

\* 0 <= numberAccepted <= numberOffered on every record a list points to
WithinOffer(heap, list) ==
    \A k \in 1..Len(list) :
        /\ 0 <= heap[list[k]].numberAccepted
        /\ heap[list[k]].numberAccepted <= heap[list[k]].numberOffered

\* C34: at the end of every matching pass every ask entry and every bid
\* entry satisfies 0 <= numberAccepted <= numberOffered, for every batch of
\* offers agents can submit, including asks with numberOffered = 0 and bids
\* whose numberOffered is zero or negative because the agent already holds
\* more than it requires.
C34_AcceptedWithinOffered ==
    PassOver =>
        /\ WithinOffer(askHeap, loop.asksCom)
        /\ WithinOffer(askHeap, asksTyped[loop.com])
        /\ WithinOffer(bidHeap, loop.bidsCom)
        /\ WithinOffer(bidHeap, bidsTyped[loop.com])

\* the same statement on the builds with one record per collected offer
PerIter_C34 == loopVarPerIteration => C34_AcceptedWithinOffered

\* the same statement for the passes whose offers all offer at least one unit
Positive_C34 ==
    (/\ loopVarPerIteration
     /\ \A k \in 1..Len(passStart.asksCom) : passStart.asks[passStart.asksCom[k]].numberOffered > 0
     /\ \A k \in 1..Len(passStart.bidsCom) : passStart.bids[passStart.bidsCom[k]].numberOffered > 0)
        => C34_AcceptedWithinOffered

-----------------------------------------------------------------------------
(* Properties of trade across agents *)

\* every agent has settled the results of the current tick: the batches it
\* holds are the ones its agentUpdate applied
AllSettled ==
    /\ tick > 0
    /\ \A i \in Agents :
          /\ pc[i] \in {"produce", "sendDead"}
          /\ life[i].cycles > 0
          /\ life[i].askResTick = tick
          /\ life[i].bidResTick = tick

\* units of c that the settlements took from sellers, and gave to buyers
UnitsSold(c) == SumSeq([i \in 1..NumAgents |-> UnitsAccepted(askSlice[i], c)])
UnitsBought(c) == SumSeq([i \in 1..NumAgents |-> UnitsAccepted(bidSlice[i], c)])

\* funds the settlements credited to sellers, and debited from buyers
FundsCredited == SumSeq([i \in 1..NumAgents |-> AskProceeds(askSlice[i])])
FundsDebited == SumSeq([i \in 1..NumAgents |-> BidCost(bidSlice[i])])

\* C35: trade conserves goods and money across agents: for each commodity
\* the units that settlement removes from sellers' inventories equal the
\* units it adds to buyers' inventories, and the funds credited to sellers
\* equal the funds debited from buyers; no trade is applied to one party
\* without being applied to its counterparty.
C35_TradeConserves ==
    AllSettled =>
        /\ \A c \in Commodities : UnitsSold(c) = UnitsBought(c)
        /\ FundsCredited = FundsDebited

\* the same statement on the builds with one record per collected offer
PerIter_C35 == loopVarPerIteration => C35_TradeConserves

-----------------------------------------------------------------------------
(* Properties of an agent's own offers *)

\* the commodities a batch has an offer for
OfferedItems(slice) == {slice[k].item : k \in 1..Len(slice)}

\* C36: no self-trade: in every round no agent submits both an ask and a
\* bid for the same commodity (asks are only for commodities no method of
\* its set requires, bids only for commodities some method requires), so no
\* trade ever matches an agent's ask with that agent's own bid.
C36_NoSelfTrade ==
    \A i \in Agents :
        OffersMade(i) => OfferedItems(askSlice[i]) \cap OfferedItems(bidSlice[i]) = {}

\* the same statement where no other agent is sorting the methods of the
\* role while the offers are made
Unshared_C36 == (\A i, j \in Agents : i # j => role[i] # role[j]) => C36_NoSelfTrade

-----------------------------------------------------------------------------
(* Properties of the size of the population *)

\* the sum of the five live counts
LiveTotal == SumSeq([k \in 1..Len(ComOrder) |-> numLive[Producer[ComOrder[k]]]])

\* the agents of role r that are running or whose death notification has
\* not been received
Present(r) == {i \in Agents : role[i] = r}

\* the counts of the roles are those of the agents present, none is
\* negative, and they sum to the initial population
CountsConserved ==
    /\ LiveTotal = totalTraders
    /\ \A r \in Roles : numLive[r] >= 0
    /\ \A r \in Roles : numLive[r] = Cardinality(Present(r))

\* C37: population is conserved: after any sequence of ticks and deaths the
\* number of agent slots and the sum of the five per-role live counts equal
\* the initial population, no role count is negative, and each role's count
\* equals the number of agents of that role that are running or have died
\* without their death notification having been received yet.
C37_PopulationConserved ==
    /\ Len(deadChannels) = totalTraders
    /\ CountsConserved

\* the statement without the number of slots
Counts_C37 == CountsConserved

\* the counts have moved: an agent has been replaced by one of another role
Counts_C37_Reached ==
    /\ numLive # CohortSizes([i \in Agents |-> IF i % 2 = 1 THEN "Farmer" ELSE "Woodcutter"])
    /\ tick > 0

-----------------------------------------------------------------------------
(* Properties of the holdings *)

\* C38: an agent's inventory count of every commodity is >= 0 in every
\* reachable state: after every production step and after the settlement
\* of any result batch the clearinghouse can return.
C38_InventoryNonNegative ==
    \A i \in Agents : \A c \in DOMAIN inventory[i] : inventory[i][c] >= 0

\* the same statement on the builds with one record per collected offer
PerIter_C38 == loopVarPerIteration => C38_InventoryNonNegative

\* the same statement where no two agents share the methods of a role
Unshared_C38 ==
    (\A i, j \in Agents : i # j => role[i] # role[j]) => C38_InventoryNonNegative

-----------------------------------------------------------------------------
(* Properties of the prices *)

\* the agent has generated its offers and is submitting them
Submitting(i) == pc[i] \in {"sendAsks", "sendBids"}

SubmittedPositive(i) ==
    /\ \A k \in 1..Len(askSlice[i]) : askSlice[i][k].sellFor > 0
    /\ \A k \in 1..Len(bidSlice[i]) : bidSlice[i][k].buyFor > 0

\* C39: prices stay positive: in every reachable state every sellFor and
\* buyFor an agent submits is > 0 and every commodity's averagePrice is > 0,
\* given that all initial average prices are > 0, and the high bound of a
\* belief interval is never negative.
C39_PricesPositive ==
    /\ \A i \in Agents : Submitting(i) => SubmittedPositive(i)
    /\ \A c \in Commodities : averagePrice[c] > 0
    /\ \A i \in Agents : \A c \in Commodities : priceBelief[i][c].high >= 0

\* the same statement on the builds with one record per collected offer
PerIter_C39 == loopVarPerIteration => C39_PricesPositive

\* the same statement where no collected bid offers a negative number of
\* units
NonNegative_C39 ==
    (\A k \in 1..Len(collected.bids) : collected.bids[k].numberOffered >= 0)
        => C39_PricesPositive

-----------------------------------------------------------------------------
(* Properties of the protocol between the agents and the clearinghouse *)

\* the agent waits at a channel operation of agentRun
AtChannel(i) == pc[i] \in {"sendAsks", "sendBids", "recvAsks", "recvBids", "sendDead"}

\* a blocked agent with a tick still to come is unblocked
Unblocked(i) == (AtChannel(i) /\ tick < MaxTicks) ~> ~AtChannel(i)

\* an agent that has received its results ends its cycle
CompletesCycle(i) == (pc[i] = "update") ~> (pc[i] # "update")

\* C40: no agent is blocked forever, so that every live agent completes
\* cycles again and again and the protocol has no deadlock under any
\* interleaving: in every reachable state every agent either waits at one of
\* the five channel operations (sending its ask batch, sending its bid batch,
\* receiving ask results, receiving bid results, sending its death
\* notification), which a later tick serves, or its goroutine can take its
\* next step; no agent is ever where it cannot go on from.
C40_NoAgentBlockedForever ==
    \A i \in Agents : AtChannel(i) \/ AgentRuns(i)

\* the part of the statement about the channel operations: a later tick
\* serves them
Unblocked_C40 == \A i \in Agents : Unblocked(i)

\* the statement, and the progress it promises, where the first agent's
\* belief about Wood was built with its high above its low
Ordered_C40 ==
    (priceBelief[1]["Wood"].high > priceBelief[1]["Wood"].low)
        => /\ [](\A i \in Agents : AtChannel(i) \/ AgentRuns(i))
           /\ \A i \in Agents : Unblocked(i) /\ CompletesCycle(i)

====
